---- MODULE Spec2Model ----
(***************************************************************************)
(* Events collection of nostr-database (collections/events.rs): a sorted,  *)
(* capped set of events tagged with the hash of the filter list it was     *)
(* queried with, and the merge of two such collections.                    *)
(***************************************************************************)
EXTENDS Integers, Sequences, FiniteSets, TLC

VARIABLES
    colls,      \* slot -> Option<Events>: <<>> (no value) or <<Events>>
    offered,    \* history: slot -> events handed to the collection so far
    last,       \* the last operation, its arguments, the receiver before it, its result
    tracker,    \* a SeenTracker
    seen_log,   \* history: the calls of seen since construction or the last clear
    db,         \* a MemoryDatabase: options, seen tracker, helper
    tasks       \* task -> the async operation it awaits and where it is suspended

eventsVars == <<colls, offered>>
seenVars == <<tracker, seen_log>>
backendVars == <<db, tasks>>

vars == <<colls, offered, last, tracker, seen_log, db, tasks>>

(***************************************************************************)
(* Bounds                                                                  *)
(***************************************************************************)
\* events that Spec hands to a collection
NumEvents == 5
\* events that SpecMerge hands to the two collections
NumMergeEvents == 3
\* greatest filter limit
MaxLimit == 2
\* longest iterator passed to extend / extend_query_events
MaxExtend == 2
\* event ids handed to a SeenTracker
NumIds == 3
\* greatest capacity of a SeenTracker
MaxCapacity == 2
\* calls of seen between two clears
MaxCalls == 4

(***************************************************************************)
(* Events.  The id is a content hash, so an event is determined by its id: *)
(* the universe holds one event per id.  Ids are byte strings (two bytes   *)
(* stand for the 32).                                                      *)
(***************************************************************************)
EventTable ==
    << [id |-> <<1, 1>>, created_at |-> 100],
       [id |-> <<2, 2>>, created_at |-> 200],
       [id |-> <<3, 3>>, created_at |-> 100],
       [id |-> <<4, 4>>, created_at |-> 50],
       [id |-> <<5, 5>>, created_at |-> 300],
       [id |-> <<1, 2>>, created_at |-> 200],
       [id |-> <<0, 9>>, created_at |-> 50] >>

EventsUpTo(n) == {EventTable[i] : i \in 1..n}

None == <<>>
Some(x) == <<x>>

(***************************************************************************)
(* Orderings                                                               *)
(***************************************************************************)
\* Ord::cmp on integers (Timestamp, u8)
CmpInt(a, b) == IF a < b THEN "Less" ELSE IF a > b THEN "Greater" ELSE "Equal"

\* Ordering::reverse
Reverse(o) == IF o = "Less" THEN "Greater" ELSE IF o = "Greater" THEN "Less" ELSE "Equal"

\* Ord::cmp on [u8; 32]: byte-lexicographic
RECURSIVE CmpBytes(_, _)
CmpBytes(x, y) ==
    IF x = <<>> /\ y = <<>> THEN "Equal"
    ELSE IF x = <<>> THEN "Less"
    ELSE IF y = <<>> THEN "Greater"
    ELSE IF Head(x) # Head(y) THEN CmpInt(Head(x), Head(y))
    ELSE CmpBytes(Tail(x), Tail(y))

\* QueryEvent: Owned(Event) | Borrowed(EventBorrow)
Owned(e) == [variant |-> "Owned", event |-> e]
Borrowed(e) == [variant |-> "Borrowed", event |-> e]

QueryEvent_id(q) == q.event.id
QueryEvent_pubkey(q) == q.event.pubkey
QueryEvent_created_at(q) == q.event.created_at
QueryEvent_content(q) == q.event.content

\* CowTag::into_owned: the strings of the tag, copied
CowTag_into_owned(tag) == [buf |-> tag.buf]

\* EventBorrow::into_owned: the fields copied one by one, each tag made owned
EventBorrow_into_owned(b) ==
    [field \in DOMAIN b |->
        IF field = "tags" THEN [i \in 1..Len(b.tags) |-> CowTag_into_owned(b.tags[i])]
        ELSE b[field]]

\* into_owned that hands the event back as it came
QueryEvent_into_owned_as_is(q) == q

\* into_owned that copies the event without its content
QueryEvent_into_owned_no_content(q) ==
    Owned([EventBorrow_into_owned(q.event) EXCEPT !.content = ""])

QueryEvent_into_owned(q) ==
    IF q.variant = "Owned" THEN Owned(q.event) ELSE Owned(EventBorrow_into_owned(q.event))

QueryEvent_into_event(q) ==
    IF q.variant = "Owned" THEN q.event ELSE EventBorrow_into_owned(q.event)

\* impl PartialEq for QueryEvent
QueryEvent_eq(a, b) == QueryEvent_id(a) = QueryEvent_id(b)

\* created_at ascending instead of descending
QueryEvent_cmp_ascending(a, b) ==
    IF QueryEvent_created_at(a) # QueryEvent_created_at(b)
    THEN CmpInt(QueryEvent_created_at(a), QueryEvent_created_at(b))
    ELSE CmpBytes(QueryEvent_id(a), QueryEvent_id(b))

\* impl Ord for QueryEvent
QueryEvent_cmp(a, b) ==
    IF QueryEvent_created_at(a) # QueryEvent_created_at(b)
    THEN Reverse(CmpInt(QueryEvent_created_at(a), QueryEvent_created_at(b)))
    ELSE CmpBytes(QueryEvent_id(a), QueryEvent_id(b))

\* Ord for Event: created_at descending, then id ascending
Event_cmp(a, b) ==
    IF a.created_at # b.created_at
    THEN Reverse(CmpInt(a.created_at, b.created_at))
    ELSE CmpBytes(a.id, b.id)

(***************************************************************************)
(* BTreeSet<Event>: a sequence kept sorted under Event_cmp, no two         *)
(* elements comparing Equal.                                               *)
(***************************************************************************)
RECURSIVE BTreeSet_insert(_, _)
BTreeSet_insert(seq, v) ==
    IF seq = <<>> THEN <<v>>
    ELSE LET c == Event_cmp(v, Head(seq)) IN
         IF c = "Less" THEN <<v>> \o seq
         ELSE IF c = "Equal" THEN seq
         ELSE <<Head(seq)>> \o BTreeSet_insert(Tail(seq), v)

BTreeSet_contains(seq, v) == \E i \in 1..Len(seq) : Event_cmp(v, seq[i]) = "Equal"

BTreeSet_pop_last(seq) == SubSeq(seq, 1, Len(seq) - 1)
BTreeSet_pop_first(seq) == Tail(seq)

Range(seq) == {seq[i] : i \in 1..Len(seq)}

(***************************************************************************)
(* BTreeCappedSet<Event>: the ordered capped set                           *)
(***************************************************************************)
Unbounded == [kind |-> "Unbounded"]
Bounded(max, policy) == [kind |-> "Bounded", max |-> max, policy |-> policy]

OCS_unbounded == [set |-> <<>>, capacity |-> Unbounded]
OCS_bounded_with_policy(max, policy) == [set |-> <<>>, capacity |-> Bounded(max, policy)]

OCS_len(s) == Len(s.set)
OCS_contains(s, v) == BTreeSet_contains(s.set, v)
OCS_first(s) == IF s.set = <<>> THEN None ELSE Some(s.set[1])
OCS_last(s) == IF s.set = <<>> THEN None ELSE Some(s.set[Len(s.set)])
OCS_iter(s) == s.set
OCS_into_iter(s) == s.set
OCS_capacity(s) == s.capacity

InsertResult(s, inserted, evicted) == [set |-> s, inserted |-> inserted, evicted |-> evicted]

\* insert: the value is rejected when present; inserted while there is room;
\* at capacity the policy end is evicted if the value orders inside it
OCS_insert(s, v) ==
    IF OCS_contains(s, v) THEN InsertResult(s, FALSE, None)
    ELSE IF s.capacity.kind = "Unbounded" \/ Len(s.set) < s.capacity.max
    THEN InsertResult([s EXCEPT !.set = BTreeSet_insert(@, v)], TRUE, None)
    ELSE IF s.capacity.policy = "Last"
    THEN LET G == s.set[Len(s.set)] IN
         IF Event_cmp(v, G) = "Less"
         THEN InsertResult([s EXCEPT !.set = BTreeSet_insert(BTreeSet_pop_last(@), v)],
                           TRUE, Some(G))
         ELSE InsertResult(s, FALSE, None)
    ELSE LET L == s.set[1] IN
         IF Event_cmp(v, L) = "Greater"
         THEN InsertResult([s EXCEPT !.set = BTreeSet_insert(BTreeSet_pop_first(@), v)],
                           TRUE, Some(L))
         ELSE InsertResult(s, FALSE, None)

\* extend: insert each value of the iterator, in its order
RECURSIVE OCS_extend(_, _)
OCS_extend(s, iter) ==
    IF iter = <<>> THEN s
    ELSE OCS_extend(OCS_insert(s, Head(iter)).set, Tail(iter))

\* collect(): an unbounded set of the iterator's values
OCS_from_iter(iter) == OCS_extend(OCS_unbounded, iter)

\* change_capacity: to a bound, drop from the policy end until len <= max
RECURSIVE OCS_change_capacity(_, _)
OCS_change_capacity(s, cap) ==
    IF cap.kind = "Unbounded" \/ Len(s.set) <= cap.max
    THEN [s EXCEPT !.capacity = cap]
    ELSE OCS_change_capacity(
            [s EXCEPT !.set = IF cap.policy = "Last" THEN BTreeSet_pop_last(@)
                                                     ELSE BTreeSet_pop_first(@)],
            cap)

(***************************************************************************)
(* Filters                                                                 *)
(***************************************************************************)
Filter(kind, limit) == [kind |-> kind, limit |-> limit]

\* Filter::limit; the capped set is constructed with max > 0
Limits == {None} \cup {Some(n) : n \in 1..MaxLimit}

\* the filter lists handed to Events::new: none, one filter with and without
\* a limit, another kind, and two filters each with a limit
FilterLists ==
    {<<>>, <<Filter(0, Some(1))>>, <<Filter(1, Some(1)), Filter(0, Some(1))>>}
        \cup {<<Filter(1, l)>> : l \in Limits}

\* the content of a filter as a number below 31
FilterCode(f) ==
    1 + f.kind * (MaxLimit + 2) + (IF f.limit = None THEN 0 ELSE 1 + f.limit[1])

\* filters.hash(DefaultHasher): order-sensitive hash of the whole list.  On
\* the lists above SipHash is injective and never 0; so is this encoding.
RECURSIVE HashFrom(_, _)
HashFrom(h, filters) ==
    IF filters = <<>> THEN h
    ELSE HashFrom(h * 31 + FilterCode(Head(filters)), Tail(filters))

Hash(filters) == HashFrom(1, filters)

(***************************************************************************)
(* Events                                                                  *)
(***************************************************************************)
\* the policy that evicts the newest event instead of the oldest
POLICY_First == "First"

POLICY == "Last"

\* new() that takes the limit of the first filter, however many there are
Events_new_first_limit(filters) ==
    LET limit == IF Len(filters) >= 1 THEN filters[1].limit ELSE None
        hash == Hash(filters)
        set == IF limit # None THEN OCS_bounded_with_policy(limit[1], POLICY)
                               ELSE OCS_unbounded
    IN [set |-> set, hash |-> hash, prev_not_match |-> FALSE]

Events_new(filters) ==
    LET limit == IF Len(filters) = 1 THEN filters[1].limit ELSE None
        hash == Hash(filters)
        set == IF limit # None THEN OCS_bounded_with_policy(limit[1], POLICY)
                               ELSE OCS_unbounded
    IN [set |-> set, hash |-> hash, prev_not_match |-> FALSE]

Events_len(E) == OCS_len(E.set)
Events_is_empty(E) == OCS_len(E.set) = 0
Events_contains(E, event) == OCS_contains(E.set, event)

\* insert that reports "nothing was evicted" instead of "inserted"
Events_insert_evicted_none(E, event) ==
    LET r == OCS_insert(E.set, event) IN
    [events |-> [E EXCEPT !.set = r.set], inserted |-> r.evicted = None,
     evicted |-> r.evicted]

\* insert: the collection after the call and the InsertResult of the set,
\* of which the method returns .inserted
Events_insert(E, event) ==
    LET r == OCS_insert(E.set, event) IN
    [events |-> [E EXCEPT !.set = r.set], inserted |-> r.inserted, evicted |-> r.evicted]

Events_extend(E, events) == [E EXCEPT !.set = OCS_extend(@, events)]

\* extend_query_events: every QueryEvent of the stream, unwrapped, in the
\* stream's order
RECURSIVE IntoEvents(_)
IntoEvents(qs) ==
    IF qs = <<>> THEN <<>>
    ELSE <<QueryEvent_into_event(Head(qs))>> \o IntoEvents(Tail(qs))

\* BTreeSet<QueryEvent>::insert, under the order of QueryEvent
RECURSIVE QuerySet_insert(_, _)
QuerySet_insert(seq, q) ==
    IF seq = <<>> THEN <<q>>
    ELSE LET c == QueryEvent_cmp(q, Head(seq)) IN
         IF c = "Less" THEN <<q>> \o seq
         ELSE IF c = "Equal" THEN seq
         ELSE <<Head(seq)>> \o QuerySet_insert(Tail(seq), q)

RECURSIVE QuerySet_from(_, _)
QuerySet_from(acc, qs) ==
    IF qs = <<>> THEN acc
    ELSE QuerySet_from(QuerySet_insert(acc, Head(qs)), Tail(qs))

\* QueryEvents::List(Vec<QueryEvent>) | QueryEvents::Set(BTreeSet<QueryEvent>)
QueryEvents_List(qs) == [variant |-> "List", events |-> qs]
QueryEvents_Set(qs) == [variant |-> "Set", events |-> QuerySet_from(<<>>, qs)]

QueryEvents_len(q) == Len(q.events)
QueryEvents_into_iter(q) == q.events

\* QueryEvents::first: the first element of the Vec, or of the BTreeSet
QueryEvents_first(q) == IF q.events = <<>> THEN None ELSE Some(q.events[1])

\* QueryEvents::first_owned: into_iter().next() of the Vec or the BTreeSet
QueryEvents_first_owned(q) ==
    IF QueryEvents_into_iter(q) = <<>> THEN None
    ELSE Some(Head(QueryEvents_into_iter(q)))

Events_extend_query_events(E, q) == Events_extend(E, IntoEvents(QueryEvents_into_iter(q)))

\* merge that tests the hashes for equality instead of inequality
Events_merge_hash_eq(self, other) ==
    LET tainted == IF self.hash = other.hash \/ self.prev_not_match \/ other.prev_not_match
                   THEN [self EXCEPT !.set = OCS_change_capacity(@, Unbounded),
                                     !.hash = 0,
                                     !.prev_not_match = TRUE]
                   ELSE self
    IN Events_extend(tainted, OCS_into_iter(other.set))

\* merge that leaves the capacity as it is on a mismatch
Events_merge_keep_capacity(self, other) ==
    LET tainted == IF self.hash # other.hash \/ self.prev_not_match \/ other.prev_not_match
                   THEN [self EXCEPT !.hash = 0, !.prev_not_match = TRUE]
                   ELSE self
    IN Events_extend(tainted, OCS_into_iter(other.set))

\* merge that does not set the flag on a mismatch
Events_merge_no_flag(self, other) ==
    LET tainted == IF self.hash # other.hash \/ self.prev_not_match \/ other.prev_not_match
                   THEN [self EXCEPT !.set = OCS_change_capacity(@, Unbounded),
                                     !.hash = 0]
                   ELSE self
    IN Events_extend(tainted, OCS_into_iter(other.set))

\* merge(self, other)
Events_merge(self, other) ==
    LET tainted == IF self.hash # other.hash \/ self.prev_not_match \/ other.prev_not_match
                   THEN [self EXCEPT !.set = OCS_change_capacity(@, Unbounded),
                                     !.hash = 0,
                                     !.prev_not_match = TRUE]
                   ELSE self
    IN Events_extend(tainted, OCS_into_iter(other.set))

\* collected as Events::new of no filter would start: untainted
Events_from_iter_untainted(qs) ==
    [set |-> OCS_from_iter(IntoEvents(qs)), hash |-> Hash(<<>>), prev_not_match |-> FALSE]

\* impl FromIterator<QueryEvent> for Events
Events_from_iter(qs) ==
    [set |-> OCS_from_iter(IntoEvents(qs)), hash |-> 0, prev_not_match |-> TRUE]

\* QueryEvents::into_owned
QueryEvents_into_owned(q) == Events_from_iter(QueryEvents_into_iter(q))

\* first() that takes the other end of the set
Events_first_of_last(E) == OCS_last(E.set)

Events_first(E) == OCS_first(E.set)
Events_last(E) == OCS_last(E.set)
Events_iter(E) == OCS_iter(E.set)
Events_into_iter(E) == OCS_into_iter(E.set)
Events_to_vec(E) == Events_into_iter(E)
Events_first_owned(E) == IF Events_into_iter(E) = <<>> THEN None
                         ELSE Some(Head(Events_into_iter(E)))
Events_last_owned(E) == IF Events_into_iter(E) = <<>> THEN None
                        ELSE Some(Events_into_iter(E)[Len(Events_into_iter(E))])

\* equality of every field, as a derived PartialEq would give
Events_eq_derived(E1, E2) == E1 = E2

\* impl PartialEq for Events
Events_eq(E1, E2) == E1.set.set = E2.set.set

(***************************************************************************)
(* SeenTracker (memory.rs): ids: HashMap<EventId, HashSet<RelayUrl>> is a  *)
(* function on the tracked ids, queue: VecDeque<EventId> a sequence whose  *)
(* head is the front.                                                      *)
(***************************************************************************)
\* EventId::from_byte_array([b; 32]); EventId::all_zeros() is byte 0
EventId_from_byte(b) == <<b, b>>

HashMap_new == [k \in {} |-> {}]
HashMap_contains_key(m, k) == k \in DOMAIN m
HashMap_insert(m, k, v) == [x \in DOMAIN m \cup {k} |-> IF x = k THEN v ELSE m[x]]
HashMap_remove(m, k) == [x \in DOMAIN m \ {k} |-> m[x]]
HashMap_len(m) == Cardinality(DOMAIN m)

VecDeque_push_front(q, v) == <<v>> \o q
VecDeque_back(q) == q[Len(q)]
VecDeque_pop_back(q) == SubSeq(q, 1, Len(q) - 1)

SeenTracker_new(capacity) ==
    [ids |-> HashMap_new, capacity |-> capacity, queue |-> <<>>]

\* pops the back whenever the queue is not empty
SeenTracker_check_capacity_always(t) ==
    IF t.queue # <<>>
    THEN [t EXCEPT !.queue = VecDeque_pop_back(@),
                   !.ids = HashMap_remove(@, VecDeque_back(t.queue))]
    ELSE t

\* pops the back and leaves its id in the map
SeenTracker_check_capacity_keep_id(t) ==
    IF t.capacity # None /\ Len(t.queue) >= t.capacity[1] /\ t.queue # <<>>
    THEN [t EXCEPT !.queue = VecDeque_pop_back(@)]
    ELSE t

SeenTracker_check_capacity(t) ==
    IF t.capacity # None /\ Len(t.queue) >= t.capacity[1]
    THEN IF t.queue # <<>>
         THEN [t EXCEPT !.queue = VecDeque_pop_back(@),
                        !.ids = HashMap_remove(@, VecDeque_back(t.queue))]
         ELSE t
    ELSE t

\* a tracked id that is seen again moves to the front of the queue
SeenTracker_seen_refresh(t, event_id, relay_url) ==
    IF HashMap_contains_key(t.ids, event_id)
    THEN [t EXCEPT !.ids[event_id] = IF relay_url # None THEN @ \cup {relay_url[1]} ELSE @,
                   !.queue = VecDeque_push_front(
                                SelectSeq(@, LAMBDA x : x # event_id), event_id)]
    ELSE LET c == SeenTracker_check_capacity(t)
             set == IF relay_url # None THEN {relay_url[1]} ELSE {}
         IN [c EXCEPT !.ids = HashMap_insert(@, event_id, set),
                      !.queue = VecDeque_push_front(@, event_id)]

SeenTracker_seen(t, event_id, relay_url) ==
    IF HashMap_contains_key(t.ids, event_id)
    THEN IF relay_url # None
         THEN [t EXCEPT !.ids[event_id] = @ \cup {relay_url[1]}]
         ELSE t
    ELSE LET c == SeenTracker_check_capacity(t)
             set == IF relay_url # None THEN {relay_url[1]} ELSE {}
         IN [c EXCEPT !.ids = HashMap_insert(@, event_id, set),
                      !.queue = VecDeque_push_front(@, event_id)]

SeenTracker_get(t, id) == IF HashMap_contains_key(t.ids, id) THEN Some(t.ids[id]) ELSE None
SeenTracker_contains(t, id) == HashMap_contains_key(t.ids, id)
SeenTracker_clear(t) == [t EXCEPT !.ids = HashMap_new, !.queue = <<>>]

(***************************************************************************)
(* MemoryDatabase (memory.rs)                                              *)
(***************************************************************************)
DEFAULT_MAX_EVENTS == 35000

MemoryDatabaseOptions(events, max_events) == [events |-> events, max_events |-> max_events]
MemoryDatabaseOptions_default == MemoryDatabaseOptions(FALSE, Some(DEFAULT_MAX_EVENTS))

\* DatabaseHelper: the ids of the stored events and the ids recorded as deleted
DatabaseHelper_bounded(max) == [capacity |-> Some(max), events |-> {}, deleted_ids |-> {}]
DatabaseHelper_unbounded == [capacity |-> None, events |-> {}, deleted_ids |-> {}]

MemoryDatabase_with_opts(opts) ==
    [opts |-> opts,
     seen_event_ids |-> SeenTracker_new(opts.max_events),
     helper |-> IF opts.max_events # None THEN DatabaseHelper_bounded(opts.max_events[1])
                                          ELSE DatabaseHelper_unbounded]
MemoryDatabase_new == MemoryDatabase_with_opts(MemoryDatabaseOptions_default)

\* DatabaseHelper::has_event, has_event_id_been_deleted, clear
DatabaseHelper_has_event(h, id) == id \in h.events
DatabaseHelper_has_event_id_been_deleted(h, id) == id \in h.deleted_ids
DatabaseHelper_clear(h) == [h EXCEPT !.events = {}, !.deleted_ids = {}]

\* DatabaseHelper::delete(filter), for the filter of one id
DatabaseHelper_delete(h, id) == [h EXCEPT !.events = @ \ {id}]

\* DatabaseHelper::index_event: the outcomes for an event of this id.  The
\* event may be rejected (deleted, duplicate, superseded, ...) and the
\* helper left as it is; an event neither stored nor deleted may be
\* inserted, and then a set D of stored events may go (superseded, over
\* capacity, or deleted by it and then recorded as deleted).
DatabaseHelper_index_event(h, id) ==
    {[helper |-> h, status |-> "Rejected"]}
        \cup IF id \in h.events \cup h.deleted_ids THEN {}
             ELSE {[helper |-> [h EXCEPT !.events = (@ \ D) \cup {id},
                                         !.deleted_ids = IF mark THEN @ \cup D ELSE @],
                    status |-> "Success"] : D \in SUBSET h.events, mark \in BOOLEAN}

\* save_event without marking the id as seen
MemoryDatabase_save_event_unmarked(d, id) ==
    IF d.opts.events
    THEN {[db |-> [d EXCEPT !.helper = r.helper], status |-> r.status] :
              r \in DatabaseHelper_index_event(d.helper, id)}
    ELSE {[db |-> d, status |-> "Rejected"]}

\* MemoryDatabase::save_event: the outcomes (database after it, status)
MemoryDatabase_save_event(d, id) ==
    IF d.opts.events
    THEN {[db |-> [d EXCEPT !.helper = r.helper], status |-> r.status] :
              r \in DatabaseHelper_index_event(d.helper, id)}
    ELSE {[db |-> [d EXCEPT !.seen_event_ids = SeenTracker_seen(@, id, None)],
           status |-> "Rejected"]}

\* MemoryDatabase::event_id_seen
MemoryDatabase_event_id_seen(d, id, relay_url) ==
    [d EXCEPT !.seen_event_ids = SeenTracker_seen(@, id, Some(relay_url))]

\* MemoryDatabase::event_seen_on_relays, under the read guard
MemoryDatabase_event_seen_on_relays(d, id) == SeenTracker_get(d.seen_event_ids, id)

\* MemoryDatabase::delete
MemoryDatabase_delete(d, id) == [d EXCEPT !.helper = DatabaseHelper_delete(@, id)]

\* MemoryDatabase::wipe, its two parts and the whole
MemoryDatabase_wipe_helper(d) == [d EXCEPT !.helper = DatabaseHelper_clear(@)]
MemoryDatabase_wipe_seen(d) == [d EXCEPT !.seen_event_ids = SeenTracker_clear(@)]
MemoryDatabase_wipe(d) == MemoryDatabase_wipe_seen(MemoryDatabase_wipe_helper(d))

\* MemoryDatabase::check_id when only ids are tracked, under the read guard
MemoryDatabase_check_id_seen(d, id) ==
    IF SeenTracker_contains(d.seen_event_ids, id) THEN "Saved" ELSE "NotExistent"

(***************************************************************************)
(* Stored events: kind, author and the tags the in-memory helper reads.    *)
(* A coordinate is the triple (kind, author, d-tag) of a replaceable slot.  *)
(***************************************************************************)
Coordinate(kind, public_key, identifier) ==
    [kind |-> kind, public_key |-> public_key, identifier |-> identifier]

\* the authors P and Q
PK_P == "P"
PK_Q == "Q"

KIND_TEXT_NOTE == 1
KIND_EVENT_DELETION == 5
KIND_ADDRESSABLE == 30000

CoordX == Coordinate(KIND_ADDRESSABLE, PK_P, "x")

StoreEvent(id, created_at, kind, pubkey, identifier, e_tags, a_tags) ==
    [id |-> id, created_at |-> created_at, kind |-> kind, pubkey |-> pubkey,
     identifier |-> identifier, e_tags |-> e_tags, a_tags |-> a_tags]

\* two notes; three events of the coordinate (30000, P, "x"), two of them of
\* the same time; a deletion of the coordinate at 150 and an older one at
\* 120; a deletion of two events by id
StoreTable ==
    << StoreEvent(<<1, 1>>, 100, KIND_TEXT_NOTE, PK_P, None, {}, {}),
       StoreEvent(<<2, 2>>, 200, KIND_TEXT_NOTE, PK_Q, None, {}, {}),
       StoreEvent(<<3, 3>>, 100, KIND_ADDRESSABLE, PK_P, Some("x"), {}, {}),
       StoreEvent(<<4, 4>>, 200, KIND_ADDRESSABLE, PK_P, Some("x"), {}, {}),
       StoreEvent(<<5, 5>>, 200, KIND_ADDRESSABLE, PK_P, Some("x"), {}, {}),
       StoreEvent(<<6, 6>>, 150, KIND_EVENT_DELETION, PK_P, None, {}, {CoordX}),
       StoreEvent(<<7, 7>>, 120, KIND_EVENT_DELETION, PK_P, None, {}, {CoordX}),
       StoreEvent(<<8, 8>>, 300, KIND_EVENT_DELETION, PK_P, None, {<<1, 1>>, <<4, 4>>}, {}) >>

StoreEvents == Range(StoreTable)
StoreIds == {e.id : e \in StoreEvents}

\* Kind::is_replaceable / is_addressable, and the coordinate of an event
Kind_is_replaceable(kind) == kind \in {0, 3} \/ (10000 <= kind /\ kind < 20000)
Kind_is_addressable(kind) == 30000 <= kind /\ kind < 40000

Event_coordinate(e) ==
    IF Kind_is_replaceable(e.kind) THEN Some(Coordinate(e.kind, e.pubkey, ""))
    ELSE IF Kind_is_addressable(e.kind) /\ e.identifier # None
    THEN Some(Coordinate(e.kind, e.pubkey, e.identifier[1]))
    ELSE None

\* the values of the single-letter tags of an event
Event_tag_values(e, letter) ==
    CASE letter = "d" -> IF e.identifier # None THEN {e.identifier[1]} ELSE {}
      [] letter = "e" -> e.e_tags
      [] letter = "a" -> e.a_tags
      [] OTHER -> {}

(***************************************************************************)
(* Filter: the attribute bag, and Filter::match_event                      *)
(***************************************************************************)
Filter_new ==
    [ids |-> None, authors |-> None, kinds |-> None, generic_tags |-> [l \in {} |-> {}],
     since |-> None, until |-> None, limit |-> None]

Filter_id(id) == [Filter_new EXCEPT !.ids = Some({id})]
Filter_author(pk) == [Filter_new EXCEPT !.authors = Some({pk})]
Filter_kind(kind) == [Filter_new EXCEPT !.kinds = Some({kind})]
Filter_limit(f, n) == [f EXCEPT !.limit = Some(n)]

\* an absent or empty attribute constrains nothing
SetMatch(attribute, v) == attribute = None \/ attribute[1] = {} \/ v \in attribute[1]

Filter_match_event(f, e) ==
    /\ SetMatch(f.ids, e.id)
    /\ SetMatch(f.authors, e.pubkey)
    /\ SetMatch(f.kinds, e.kind)
    /\ f.since = None \/ f.since[1] <= e.created_at
    /\ f.until = None \/ e.created_at <= f.until[1]
    /\ \A l \in DOMAIN f.generic_tags : f.generic_tags[l] \cap Event_tag_values(e, l) # {}

\* what Events::new reads of a filter: its limit, and its content for the hash
FilterKey(f) == Filter(IF f.kinds # None THEN 1 ELSE 0, f.limit)

RECURSIVE FilterKeys(_)
FilterKeys(filters) ==
    IF filters = <<>> THEN <<>> ELSE <<FilterKey(Head(filters))>> \o FilterKeys(Tail(filters))

(***************************************************************************)
(* The in-memory helper: the capped ordered set of the stored events (the  *)
(* id map and the author and kind indexes hold the same events), the ids   *)
(* recorded as deleted, and the register of deleted coordinates            *)
(***************************************************************************)
Helper_unbounded ==
    [events |-> OCS_unbounded, deleted_ids |-> {}, deleted_coordinates |-> [c \in {} |-> 0]]
Helper_bounded(max) ==
    [events |-> OCS_bounded_with_policy(max, POLICY), deleted_ids |-> {},
     deleted_coordinates |-> [c \in {} |-> 0]]

Helper_events(h) == Range(h.events.set)
Helper_ids(h) == {e.id : e \in Helper_events(h)}

Helper_has_event(h, id) == id \in Helper_ids(h)
Helper_has_event_id_been_deleted(h, id) == id \in h.deleted_ids

\* a deletion of the coordinate at a time >= timestamp is recorded
Helper_has_coordinate_been_deleted(h, coordinate, timestamp) ==
    /\ coordinate \in DOMAIN h.deleted_coordinates
    /\ h.deleted_coordinates[coordinate] >= timestamp

Helper_event_by_id(h, id) ==
    IF \E e \in Helper_events(h) : e.id = id
    THEN Some(CHOOSE e \in Helper_events(h) : e.id = id)
    ELSE None

\* remove the events of these ids from the set and the indexes
Helper_discard_events(h, ids) ==
    [h EXCEPT !.events.set = SelectSeq(@, LAMBDA e : e.id \notin ids)]

\* record the deletion of a coordinate: the register keeps the latest time
Helper_delete_coordinate(h, coordinate, timestamp) ==
    [h EXCEPT !.deleted_coordinates =
        [c \in DOMAIN @ \cup {coordinate} |->
            IF c = coordinate
            THEN IF c \in DOMAIN @ /\ @[c] > timestamp THEN @[c] ELSE timestamp
            ELSE @[c]]]

RECURSIVE Helper_delete_coordinates(_, _, _)
Helper_delete_coordinates(h, coordinates, timestamp) ==
    IF coordinates = {} THEN h
    ELSE LET c == CHOOSE c \in coordinates : TRUE
         IN Helper_delete_coordinates(Helper_delete_coordinate(h, c, timestamp),
                                      coordinates \ {c}, timestamp)

\* a deletion event of its author: the events it names by id and the events
\* of the coordinates it names that are not newer go and are recorded as
\* deleted, and the coordinates enter the register
Helper_apply_deletion(h, event) ==
    LET coordinates == {c \in event.a_tags : c.public_key = event.pubkey}
        gone == {e \in Helper_events(h) :
                    /\ e.pubkey = event.pubkey
                    /\ e.created_at <= event.created_at
                    /\ \/ e.id \in event.e_tags
                       \/ Event_coordinate(e) # None /\ Event_coordinate(e)[1] \in coordinates}
        h1 == Helper_delete_coordinates(h, coordinates, event.created_at)
    IN [Helper_discard_events(h1, {e.id : e \in gone})
            EXCEPT !.deleted_ids = @ \cup {e.id : e \in gone}]

\* then insert: into the capped set of prepared, the helper after the
\* removals; the event evicted for capacity leaves the indexes with it.  An
\* event the capped set does not take is rejected and h stays as it was.
Helper_insert(h, prepared, event) ==
    LET r == OCS_insert(prepared.events, event)
    IN IF r.inserted
       THEN [helper |-> [prepared EXCEPT !.events = r.set], status |-> "Success"]
       ELSE [helper |-> h, status |-> "Rejected"]

\* index_event: duplicate, coordinate deletion against created_at, id
\* deletion, supersession within the coordinate, then insert.  Between two
\* events of a coordinate with the same created_at either may be kept.
Helper_index_event(h, event) ==
    LET c == Event_coordinate(event)
        same == IF c = None THEN {}
                ELSE {e \in Helper_events(h) : Event_coordinate(e) = c}
        h1 == Helper_discard_events(h, {e.id : e \in same})
        h2 == IF event.kind = KIND_EVENT_DELETION THEN Helper_apply_deletion(h1, event)
                                                  ELSE h1
    IN IF Helper_has_event(h, event.id) THEN {[helper |-> h, status |-> "Rejected"]}
       ELSE IF c # None /\ Helper_has_coordinate_been_deleted(h, c[1], event.created_at)
       THEN {[helper |-> h, status |-> "Rejected"]}
       ELSE IF Helper_has_event_id_been_deleted(h, event.id)
       THEN {[helper |-> h, status |-> "Rejected"]}
       ELSE IF \E e \in same : e.created_at > event.created_at
       THEN {[helper |-> h, status |-> "Rejected"]}
       ELSE {Helper_insert(h, h2, event)}
               \cup IF \E e \in same : e.created_at = event.created_at
                    THEN {[helper |-> h, status |-> "Rejected"]} ELSE {}

\* the stored events a filter matches, as the indexes give them; the limit
\* is applied once, by the collection the results are gathered in
Helper_filter_query(h, f) ==
    SelectSeq(h.events.set, LAMBDA e : Filter_match_event(f, e))

RECURSIVE Helper_fold(_, _)
Helper_fold(h, filters) ==
    IF filters = <<>> THEN <<>>
    ELSE Helper_filter_query(h, Head(filters)) \o Helper_fold(h, Tail(filters))

\* query: the results of the filters collected in Events::new(&filters)
Helper_query(h, filters) ==
    Events_extend(Events_new(FilterKeys(filters)), Helper_fold(h, filters))

Helper_count(h, filters) == Cardinality(Range(Helper_fold(h, filters)))

\* delete: the events the filter matches leave the store
Helper_delete(h, f) ==
    Helper_discard_events(h, {e.id : e \in {x \in Helper_events(h) : Filter_match_event(f, x)}})

Helper_clear(h) ==
    [h EXCEPT !.events.set = <<>>, !.deleted_ids = {},
              !.deleted_coordinates = [c \in {} |-> 0]]

(***************************************************************************)
(* MemoryDatabase over the in-memory helper (memory.rs)                    *)
(***************************************************************************)
Memory_with_opts(opts) ==
    [opts |-> opts,
     seen_event_ids |-> SeenTracker_new(opts.max_events),
     helper |-> IF opts.max_events # None THEN Helper_bounded(opts.max_events[1])
                                          ELSE Helper_unbounded]

\* save_event that answers Success whatever the helper answers
Memory_save_event_success(d, event) ==
    IF d.opts.events
    THEN {[db |-> [d EXCEPT !.helper = r.helper], status |-> "Success"] :
              r \in Helper_index_event(d.helper, event)}
    ELSE {[db |-> [d EXCEPT !.seen_event_ids = SeenTracker_seen(@, event.id, None)],
           status |-> "Rejected(Other)"]}

\* save_event that marks the id as seen on the relay it came from
Memory_save_event_relay(d, event) ==
    IF d.opts.events
    THEN {[db |-> [d EXCEPT !.helper = r.helper], status |-> r.status] :
              r \in Helper_index_event(d.helper, event)}
    ELSE {[db |-> [d EXCEPT !.seen_event_ids =
                            SeenTracker_seen(@, event.id, Some("wss://relay.b"))],
           status |-> "Rejected(Other)"]}

\* save_event that indexes the event and marks its id as seen whatever the
\* options say
Memory_save_event_indexed(d, event) ==
    {[db |-> [d EXCEPT !.helper = r.helper,
                       !.seen_event_ids = SeenTracker_seen(@, event.id, None)],
      status |-> r.status] :
        r \in Helper_index_event(d.helper, event)}

\* save_event: the outcomes (database after it, status)
Memory_save_event(d, event) ==
    IF d.opts.events
    THEN {[db |-> [d EXCEPT !.helper = r.helper], status |-> r.status] :
              r \in Helper_index_event(d.helper, event)}
    ELSE {[db |-> [d EXCEPT !.seen_event_ids = SeenTracker_seen(@, event.id, None)],
           status |-> "Rejected(Other)"]}

Memory_check_id(d, event_id) ==
    IF d.opts.events
    THEN IF Helper_has_event_id_been_deleted(d.helper, event_id) THEN "Deleted"
         ELSE IF Helper_has_event(d.helper, event_id) THEN "Saved"
         ELSE "NotExistent"
    ELSE IF SeenTracker_contains(d.seen_event_ids, event_id) THEN "Saved"
         ELSE "NotExistent"

\* has_coordinate_been_deleted that asks the helper about time 0
Memory_has_coordinate_been_deleted_ever(d, coordinate, timestamp) ==
    Helper_has_coordinate_been_deleted(d.helper, coordinate, 0)

Memory_has_coordinate_been_deleted(d, coordinate, timestamp) ==
    Helper_has_coordinate_been_deleted(d.helper, coordinate, timestamp)

Memory_event_id_seen(d, event_id, relay_url) ==
    [d EXCEPT !.seen_event_ids = SeenTracker_seen(@, event_id, Some(relay_url))]

Memory_event_seen_on_relays(d, event_id) == SeenTracker_get(d.seen_event_ids, event_id)

Memory_event_by_id(d, id) == Helper_event_by_id(d.helper, id)
Memory_count(d, filters) == Helper_count(d.helper, filters)
Memory_query(d, filters) == Helper_query(d.helper, filters)
Memory_delete(d, filter) == [d EXCEPT !.helper = Helper_delete(@, filter)]
Memory_wipe(d) ==
    [d EXCEPT !.helper = Helper_clear(@), !.seen_event_ids = SeenTracker_clear(@)]

(***************************************************************************)
(* State machine: two owners of an Events value, A and B                   *)
(***************************************************************************)
Slots == {"A", "B"}

Live(s) == colls[s] # None
Coll(s) == colls[s][1]

\* iterators of at most n events of the set U
EventSeqs(U, n) == UNION {[1..k -> U] : k \in 0..n}

RECURSIVE MapOwned(_)
MapOwned(es) == IF es = <<>> THEN <<>> ELSE <<Owned(Head(es))>> \o MapOwned(Tail(es))
RECURSIVE MapBorrowed(_)
MapBorrowed(es) == IF es = <<>> THEN <<>> ELSE <<Borrowed(Head(es))>> \o MapBorrowed(Tail(es))

\* the stream of a sequence of events in both variants: a list (here of
\* owned events) and a set (here of borrowed views)
QueryEventsOf(es) == {QueryEvents_List(MapOwned(es)), QueryEvents_Set(MapBorrowed(es))}

Tasks == {"t1", "t2"}

\* a task that awaits nothing; after_save is the save_event it completed
\* last (id and status), quiet whether no other task has written since
IdleTask(after_save, quiet) ==
    [pc |-> "idle", op |-> "none", arg |-> None, pre |-> None,
     after_save |-> after_save, quiet |-> quiet, absent |-> FALSE]

\* no Events value yet, nothing handed over
InitEvents ==
    /\ colls = [s \in Slots |-> None]
    /\ offered = [s \in Slots |-> {}]

\* SeenTracker::new(capacity), no call yet
InitSeen(capacity) ==
    /\ tracker = SeenTracker_new(capacity)
    /\ seen_log = <<>>

\* MemoryDatabase::with_opts(opts), no task awaits anything
InitBackend(opts) ==
    /\ db = MemoryDatabase_with_opts(opts)
    /\ tasks = [t \in Tasks |-> IdleTask(None, TRUE)]

Init ==
    /\ InitEvents
    /\ InitSeen(None)
    /\ InitBackend(MemoryDatabaseOptions_default)
    /\ last = [op |-> "init"]

\* let events = Events::new(&filters)
New(s, filters) ==
    /\ colls' = [colls EXCEPT ![s] = Some(Events_new(filters))]
    /\ offered' = [offered EXCEPT ![s] = {}]
    /\ last' = [op |-> "new", slot |-> s, filters |-> filters]
    /\ UNCHANGED <<seenVars, backendVars>>

\* events.insert(event)
Insert(s, event) ==
    /\ Live(s)
    /\ LET r == Events_insert(Coll(s), event) IN
        /\ colls' = [colls EXCEPT ![s] = Some(r.events)]
        /\ last' = [op |-> "insert", slot |-> s, event |-> event, pre |-> Coll(s),
                    offered_pre |-> offered[s],
                    inserted |-> r.inserted, evicted |-> r.evicted]
    /\ offered' = [offered EXCEPT ![s] = @ \cup {event}]
    /\ UNCHANGED <<seenVars, backendVars>>

\* events.extend(iter)
Extend(s, events) ==
    /\ Live(s)
    /\ colls' = [colls EXCEPT ![s] = Some(Events_extend(Coll(s), events))]
    /\ offered' = [offered EXCEPT ![s] = @ \cup Range(events)]
    /\ last' = [op |-> "extend", slot |-> s]
    /\ UNCHANGED <<seenVars, backendVars>>

\* events.extend_query_events(query_events)
ExtendQueryEvents(s, q) ==
    /\ Live(s)
    /\ colls' = [colls EXCEPT ![s] = Some(Events_extend_query_events(Coll(s), q))]
    /\ offered' = [offered EXCEPT ![s] = @ \cup Range(IntoEvents(q.events))]
    /\ last' = [op |-> "extend_query_events", slot |-> s]
    /\ UNCHANGED <<seenVars, backendVars>>

\* a = a.merge(b): both values are moved, the result is owned by a
Merge(a, b) ==
    /\ a # b
    /\ Live(a)
    /\ Live(b)
    /\ colls' = [colls EXCEPT ![a] = Some(Events_merge(Coll(a), Coll(b))), ![b] = None]
    /\ offered' = [offered EXCEPT ![a] = offered[a] \cup offered[b], ![b] = {}]
    /\ last' = [op |-> "merge", slot |-> a, other_slot |-> b,
                self |-> Coll(a), other |-> Coll(b),
                offered_self |-> offered[a], offered_other |-> offered[b]]
    /\ UNCHANGED <<seenVars, backendVars>>

\* let events: Events = query_events.into_owned()
Collect(s, q) ==
    /\ colls' = [colls EXCEPT ![s] = Some(QueryEvents_into_owned(q))]
    /\ offered' = [offered EXCEPT ![s] = Range(IntoEvents(q.events))]
    /\ last' = [op |-> "collect", slot |-> s, stream |-> q,
                first |-> QueryEvents_first(q),
                first_owned |-> QueryEvents_first_owned(q),
                iter |-> QueryEvents_into_iter(q)]
    /\ UNCHANGED <<seenVars, backendVars>>

(***************************************************************************)
(* Spec: one collection, every insertion operation                         *)
(***************************************************************************)
Universe == EventsUpTo(NumEvents)

DoNew == \E filters \in FilterLists : New("A", filters)
DoInsert == \E event \in Universe : Insert("A", event)
DoExtend == \E events \in EventSeqs(Universe, MaxExtend) : Extend("A", events)
DoExtendQueryEvents ==
    \E events \in EventSeqs(Universe, MaxExtend) :
        \E q \in QueryEventsOf(events) : ExtendQueryEvents("A", q)

Next == DoNew \/ DoInsert \/ DoExtend \/ DoExtendQueryEvents

Spec == Init /\ [][Next]_vars

(***************************************************************************)
(* SpecMerge: two collections, every operation and merge                   *)
(***************************************************************************)
MergeUniverse == EventsUpTo(NumMergeEvents)

\* an unlimited filter, a limited one, and a limited one of another kind
MergeFilterLists ==
    {<<Filter(1, None)>>, <<Filter(1, Some(MaxLimit))>>, <<Filter(0, Some(1))>>}

\* under SpecMerge an iterator yields one event (longer ones: Spec)
MergeNew == \E s \in Slots : \E filters \in MergeFilterLists : New(s, filters)
MergeInsert == \E s \in Slots : \E event \in MergeUniverse : Insert(s, event)
MergeExtend == \E s \in Slots : \E event \in MergeUniverse : Extend(s, <<event>>)
MergeExtendQueryEvents ==
    \E s \in Slots : \E event \in MergeUniverse :
        \E q \in QueryEventsOf(<<event>>) : ExtendQueryEvents(s, q)
MergeMerge == \E a \in Slots : \E b \in Slots : Merge(a, b)
\* the streams collected under SpecMerge: one event, and two events out of
\* order of which one comes twice
CollectStreams ==
    {<<e>> : e \in MergeUniverse} \cup {<<EventTable[1], EventTable[2], EventTable[1]>>}

MergeCollect ==
    \E s \in Slots : \E events \in CollectStreams :
        \E q \in QueryEventsOf(events) : Collect(s, q)

NextMerge ==
    \/ MergeNew
    \/ MergeInsert
    \/ MergeExtend
    \/ MergeExtendQueryEvents
    \/ MergeMerge
    \/ MergeCollect

SpecMerge == Init /\ [][NextMerge]_vars

(***************************************************************************)
(* SpecQueryEvent: two QueryEvent values are compared                      *)
(***************************************************************************)
\* every event of the table, owned and borrowed
QueryEventUniverse ==
    {Owned(EventTable[i]) : i \in 1..Len(EventTable)}
        \cup {Borrowed(EventTable[i]) : i \in 1..Len(EventTable)}

\* a == b and a.cmp(&b)
Compare(a, b) ==
    /\ last' = [op |-> "cmp", a |-> a, b |-> b,
                eq |-> QueryEvent_eq(a, b), ordering |-> QueryEvent_cmp(a, b)]
    /\ UNCHANGED <<eventsVars, seenVars, backendVars>>

DoCompare == \E a \in QueryEventUniverse : \E b \in QueryEventUniverse : Compare(a, b)

\* borrowed views of stored notes, with all the fields a view has
ViewTable ==
    << [id |-> <<1, 1>>, pubkey |-> <<7, 7>>, created_at |-> 100, kind |-> 1,
        tags |-> <<[cow |-> "Borrowed", buf |-> <<"e", "x">>]>>, content |-> "hello",
        sig |-> <<5, 5>>],
       [id |-> <<1, 2>>, pubkey |-> <<7, 7>>, created_at |-> 100, kind |-> 1,
        tags |-> <<>>, content |-> "", sig |-> <<6, 6>>],
       [id |-> <<0, 9>>, pubkey |-> <<8, 8>>, created_at |-> 200, kind |-> 1,
        tags |-> <<[cow |-> "Owned", buf |-> <<"p">>], [cow |-> "Borrowed", buf |-> <<"d", "">>]>>,
        content |-> "bye", sig |-> <<7, 7>>] >>

Views == Range(ViewTable)

ViewUniverse ==
    {Borrowed(b) : b \in Views} \cup {Owned(EventBorrow_into_owned(b)) : b \in Views}

\* x.into_owned(), with what the accessors and into_event give before and
\* after it
IntoOwned(x) ==
    /\ LET owned == QueryEvent_into_owned(x)
       IN last' = [op |-> "into_owned", x |-> x, owned |-> owned,
                   twice |-> QueryEvent_into_owned(owned),
                   event |-> QueryEvent_into_event(x),
                   owned_event |-> QueryEvent_into_event(owned),
                   accessors |-> <<QueryEvent_id(x), QueryEvent_pubkey(x),
                                   QueryEvent_created_at(x), QueryEvent_content(x)>>,
                   owned_accessors |-> <<QueryEvent_id(owned), QueryEvent_pubkey(owned),
                                         QueryEvent_created_at(owned), QueryEvent_content(owned)>>,
                   eq |-> QueryEvent_eq(x, owned), ordering |-> QueryEvent_cmp(x, owned)]
    /\ UNCHANGED <<eventsVars, seenVars, backendVars>>

DoIntoOwned == \E x \in ViewUniverse : IntoOwned(x)

NextQueryEvent == DoCompare \/ DoIntoOwned

SpecQueryEvent == Init /\ [][NextQueryEvent]_vars

(***************************************************************************)
(* SpecSeen: one SeenTracker of any capacity, seen and clear               *)
(***************************************************************************)
SeenIds == {EventId_from_byte(b) : b \in 0..(NumIds - 1)}
RelayUrls == {"wss://relay.a", "wss://relay.b"}
OptionRelayUrls == {None} \cup {Some(url) : url \in RelayUrls}

\* Option<usize>: no capacity, or one from 0
Capacities == {None} \cup {Some(n) : n \in 0..MaxCapacity}

\* tracker.seen(event_id, relay_url)
Seen(event_id, relay_url) ==
    /\ Len(seen_log) < MaxCalls
    /\ tracker' = SeenTracker_seen(tracker, event_id, relay_url)
    /\ seen_log' = Append(seen_log,
                          [id |-> event_id,
                           inserted |-> ~SeenTracker_contains(tracker, event_id)])
    /\ last' = [op |-> "seen", event_id |-> event_id, relay_url |-> relay_url,
                pre |-> tracker]
    /\ UNCHANGED <<eventsVars, backendVars>>

\* tracker.clear()
Clear ==
    /\ tracker' = SeenTracker_clear(tracker)
    /\ seen_log' = <<>>
    /\ last' = [op |-> "clear"]
    /\ UNCHANGED <<eventsVars, backendVars>>

DoSeen == \E id \in SeenIds : \E url \in OptionRelayUrls : Seen(id, url)
DoClear == Clear

InitSeenTracker ==
    /\ InitEvents
    /\ \E capacity \in Capacities : InitSeen(capacity)
    /\ InitBackend(MemoryDatabaseOptions_default)
    /\ last = [op |-> "init"]

NextSeen == DoSeen \/ DoClear

SpecSeen == InitSeenTracker /\ [][NextSeen]_vars

(***************************************************************************)
(* SpecBackend: tasks on one MemoryDatabase.  A step is one region under a *)
(* lock (the RwLock of the seen tracker, the helper's own lock); a task is *)
(* suspended between regions.  A reader of the seen tracker holds its      *)
(* guard from one step to the next, a writer acquires, commits and         *)
(* releases in one step.                                                   *)
(***************************************************************************)
BackendIds == {EventId_from_byte(0), EventId_from_byte(1)}
BackendRelayUrl == "wss://relay.a"

\* events stored or only ids tracked; no capacity, or room for one id
BackendOptions ==
    {MemoryDatabaseOptions(events, max_events) :
        events \in BOOLEAN, max_events \in {None, Some(1)}}

Operations ==
    {"save_event", "check_id", "event_id_seen", "event_seen_on_relays", "delete", "wipe"}

\* the tasks holding the read guard of seen_event_ids
Readers == {t \in Tasks : tasks[t].pc = "reading"}

\* the first .await of the operation
FirstAwait(op) ==
    CASE op = "save_event" -> IF db.opts.events THEN "await_helper" ELSE "await_write"
      [] op = "check_id" -> IF db.opts.events THEN "await_helper" ELSE "await_read"
      [] op = "event_id_seen" -> "await_write"
      [] op = "event_seen_on_relays" -> "await_read"
      [] op = "delete" -> "await_helper"
      [] op = "wipe" -> "await_helper"

\* the id is neither stored nor marked deleted in the helper
StoreAbsent(d, id) ==
    /\ ~DatabaseHelper_has_event(d.helper, id)
    /\ ~DatabaseHelper_has_event_id_been_deleted(d.helper, id)

\* another task has written: the task's call no longer starts from pre, its
\* save is no longer the last write, and a check_id in flight has seen one
\* more state of the helper (absent: in some state since the call its id
\* was neither stored nor marked deleted)
Disturbed(r) ==
    [r EXCEPT !.pre = None, !.quiet = IF r.after_save # None THEN FALSE ELSE @,
              !.absent = @ \/ (r.op = "check_id" /\ StoreAbsent(db', r.arg[1]))]

\* task t returns; wrote says whether its operation is a writing one
Return(t, after_save, wrote) ==
    tasks' = [u \in Tasks |->
                IF u = t THEN IdleTask(after_save, TRUE)
                ELSE IF wrote THEN Disturbed(tasks[u]) ELSE tasks[u]]

\* task t moves on to its next .await
Proceed(t, pc, wrote) ==
    tasks' = [u \in Tasks |->
                IF u = t THEN [tasks[t] EXCEPT !.pc = pc]
                ELSE IF wrote THEN Disturbed(tasks[u]) ELSE tasks[u]]

\* task t calls an operation: the future is created, nothing has run
Call(t, op, arg) ==
    /\ tasks[t].pc = "idle"
    /\ (op = "wipe") <=> (arg = None)
    /\ LET follows == /\ op = "check_id"
                      /\ tasks[t].after_save # None
                      /\ tasks[t].after_save[1].id = arg[1]
       IN tasks' = [tasks EXCEPT ![t] =
                        [pc |-> FirstAwait(op), op |-> op, arg |-> arg, pre |-> Some(db),
                         absent |-> op = "check_id" /\ StoreAbsent(db, arg[1]),
                         after_save |-> IF follows THEN @.after_save ELSE None,
                         quiet |-> IF follows THEN @.quiet ELSE TRUE]]
    /\ last' = [op |-> "call"]
    /\ UNCHANGED <<db, eventsVars, seenVars>>

\* save_event: index_event, or write lock and seen(event.id, None)
SaveEvent(t) ==
    /\ tasks[t].op = "save_event"
    /\ tasks[t].pc \in {"await_helper", "await_write"}
    /\ tasks[t].pc = "await_write" => Readers = {}
    /\ \E r \in MemoryDatabase_save_event(db, tasks[t].arg[1]) :
          /\ db' = r.db
          /\ Return(t, Some([id |-> tasks[t].arg[1], status |-> r.status]), TRUE)
          /\ last' = [op |-> "save_event", status |-> r.status]
    /\ UNCHANGED <<eventsVars, seenVars>>

\* event_id_seen: write lock and seen(event_id, Some(relay_url))
EventIdSeen(t) ==
    /\ tasks[t].op = "event_id_seen"
    /\ tasks[t].pc = "await_write"
    /\ Readers = {}
    /\ db' = MemoryDatabase_event_id_seen(db, tasks[t].arg[1], BackendRelayUrl)
    /\ Return(t, None, TRUE)
    /\ last' = [op |-> "event_id_seen"]
    /\ UNCHANGED <<eventsVars, seenVars>>

\* delete: helper.delete(filter)
Delete(t) ==
    /\ tasks[t].op = "delete"
    /\ tasks[t].pc = "await_helper"
    /\ db' = MemoryDatabase_delete(db, tasks[t].arg[1])
    /\ Return(t, None, TRUE)
    /\ last' = [op |-> "delete"]
    /\ UNCHANGED <<eventsVars, seenVars>>

\* wipe, first part: self.helper.clear().await
WipeHelper(t) ==
    /\ tasks[t].op = "wipe"
    /\ tasks[t].pc = "await_helper"
    /\ db' = MemoryDatabase_wipe_helper(db)
    /\ Proceed(t, "await_write", TRUE)
    /\ last' = [op |-> "wipe_helper"]
    /\ UNCHANGED <<eventsVars, seenVars>>

\* wipe, second part: write lock and clear
WipeSeen(t) ==
    /\ tasks[t].op = "wipe"
    /\ tasks[t].pc = "await_write"
    /\ Readers = {}
    /\ db' = MemoryDatabase_wipe_seen(db)
    /\ Return(t, None, TRUE)
    /\ last' = [op |-> "wipe"]
    /\ UNCHANGED <<eventsVars, seenVars>>

\* self.seen_event_ids.read().await gives the guard
AcquireRead(t) ==
    /\ tasks[t].pc = "await_read"
    /\ Proceed(t, "reading", FALSE)
    /\ last' = [op |-> "read"]
    /\ UNCHANGED <<db, eventsVars, seenVars>>

\* check_id when only ids are tracked: contains under the guard
CheckIdSeen(t) ==
    /\ tasks[t].op = "check_id"
    /\ tasks[t].pc = "reading"
    /\ last' = [op |-> "check_id", task |-> t, id |-> tasks[t].arg[1],
                status |-> MemoryDatabase_check_id_seen(db, tasks[t].arg[1]),
                after_save |-> tasks[t].after_save, quiet |-> tasks[t].quiet]
    /\ Return(t, None, FALSE)
    /\ UNCHANGED <<db, eventsVars, seenVars>>

\* check_id when events are stored, first part: has_event_id_been_deleted
CheckIdDeleted(t) ==
    /\ tasks[t].op = "check_id"
    /\ tasks[t].pc = "await_helper"
    /\ IF DatabaseHelper_has_event_id_been_deleted(db.helper, tasks[t].arg[1])
       THEN /\ last' = [op |-> "check_id", task |-> t, id |-> tasks[t].arg[1],
                        status |-> "Deleted",
                        after_save |-> tasks[t].after_save, quiet |-> tasks[t].quiet]
            /\ Return(t, None, FALSE)
       ELSE /\ last' = [op |-> "read"]
            /\ Proceed(t, "await_helper2", FALSE)
    /\ UNCHANGED <<db, eventsVars, seenVars>>

\* check_id when events are stored, second part: has_event
CheckIdHas(t) ==
    /\ tasks[t].op = "check_id"
    /\ tasks[t].pc = "await_helper2"
    /\ last' = [op |-> "check_id", task |-> t, id |-> tasks[t].arg[1],
                status |-> IF DatabaseHelper_has_event(db.helper, tasks[t].arg[1])
                           THEN "Saved" ELSE "NotExistent",
                absent |-> tasks[t].absent,
                after_save |-> tasks[t].after_save, quiet |-> tasks[t].quiet]
    /\ Return(t, None, FALSE)
    /\ UNCHANGED <<db, eventsVars, seenVars>>

\* event_seen_on_relays: get under the guard
EventSeenOnRelays(t) ==
    /\ tasks[t].op = "event_seen_on_relays"
    /\ tasks[t].pc = "reading"
    /\ last' = [op |-> "event_seen_on_relays",
                relays |-> MemoryDatabase_event_seen_on_relays(db, tasks[t].arg[1])]
    /\ Return(t, None, FALSE)
    /\ UNCHANGED <<db, eventsVars, seenVars>>

\* the future of task t is dropped while it is pending: at an .await of the
\* helper, or at write().await while another task holds the read guard
Cancel(t) ==
    /\ \/ tasks[t].pc \in {"await_helper", "await_helper2"}
       \/ tasks[t].pc = "await_write" /\ Readers # {}
    /\ last' = [op |-> "cancel", task |-> t, of |-> tasks[t].op, arg |-> tasks[t].arg,
                pre |-> tasks[t].pre]
    /\ Return(t, None, FALSE)
    /\ UNCHANGED <<db, eventsVars, seenVars>>

DoCall ==
    \E t \in Tasks : \E op \in Operations :
        \E arg \in {None} \cup {Some(id) : id \in BackendIds} : Call(t, op, arg)
DoSaveEvent == \E t \in Tasks : SaveEvent(t)
DoEventIdSeen == \E t \in Tasks : EventIdSeen(t)
DoDelete == \E t \in Tasks : Delete(t)
DoWipeHelper == \E t \in Tasks : WipeHelper(t)
DoWipeSeen == \E t \in Tasks : WipeSeen(t)
DoAcquireRead == \E t \in Tasks : AcquireRead(t)
DoCheckIdSeen == \E t \in Tasks : CheckIdSeen(t)
DoCheckIdDeleted == \E t \in Tasks : CheckIdDeleted(t)
DoCheckIdHas == \E t \in Tasks : CheckIdHas(t)
DoEventSeenOnRelays == \E t \in Tasks : EventSeenOnRelays(t)
DoCancel == \E t \in Tasks : Cancel(t)

InitMemoryDatabase ==
    /\ InitEvents
    /\ InitSeen(None)
    /\ \E opts \in BackendOptions : InitBackend(opts)
    /\ last = [op |-> "init"]

NextBackend ==
    \/ DoCall
    \/ DoSaveEvent
    \/ DoEventIdSeen
    \/ DoDelete
    \/ DoWipeHelper
    \/ DoWipeSeen
    \/ DoAcquireRead
    \/ DoCheckIdSeen
    \/ DoCheckIdDeleted
    \/ DoCheckIdHas
    \/ DoEventSeenOnRelays
    \/ DoCancel

SpecBackend == InitMemoryDatabase /\ [][NextBackend]_vars

(***************************************************************************)
(* SpecLock: the RwLock of the seen tracker, with events disabled.  A step *)
(* is one access to one field of the tracker, or the acquisition of a      *)
(* guard; a guard is released by the last step of the region.              *)
(***************************************************************************)
\* events disabled; no capacity, capacity 0 and capacity 1
LockOptions == {MemoryDatabaseOptions(FALSE, c) : c \in {None, Some(0), Some(1)}}

LockOperations ==
    {"save_event", "event_id_seen", "check_id", "event_seen_on_relays", "wipe"}

\* the positions of a task inside SeenTracker::seen and SeenTracker::clear
WritingPcs == {"seen", "check_capacity", "remove", "insert", "push_front",
               "clear", "clear_queue"}

\* the tasks holding the write guard of seen_event_ids
Writers == {t \in Tasks : tasks[t].pc \in WritingPcs}

\* a task that awaits nothing
LockIdle ==
    [pc |-> "idle", op |-> "none", arg |-> None, relay_url |-> None,
     popped |-> None, pre |-> None]

\* read().await without regard to the writer
RwLock_read_ready_unguarded == TRUE

\* RwLock::read().await is ready: no task holds the write guard
RwLock_read_ready == Writers = {}

\* RwLock::write().await is ready: no task holds any guard
RwLock_write_ready == Writers = {} /\ Readers = {}

LockStep(t, pc) == tasks' = [tasks EXCEPT ![t].pc = pc]
LockRelease(t) == tasks' = [tasks EXCEPT ![t] = LockIdle]
LockTracker(f) == db' = [db EXCEPT !.seen_event_ids = f]

\* task t calls an operation
LockCall(t, op, arg) ==
    /\ tasks[t].pc = "idle"
    /\ (op = "wipe") <=> (arg = None)
    /\ tasks' = [tasks EXCEPT ![t] =
                    [LockIdle EXCEPT !.pc = FirstAwait(op), !.op = op, !.arg = arg,
                                     !.relay_url = IF op = "event_id_seen"
                                                   THEN Some(BackendRelayUrl) ELSE None]]
    /\ last' = [op |-> "call"]
    /\ UNCHANGED <<db, eventsVars, seenVars>>

\* wipe: self.helper.clear().await, the helper holds nothing
LockWipeHelper(t) ==
    /\ tasks[t].op = "wipe"
    /\ tasks[t].pc = "await_helper"
    /\ db' = MemoryDatabase_wipe_helper(db)
    /\ LockStep(t, "await_write")
    /\ last' = [op |-> "wipe_helper"]
    /\ UNCHANGED <<eventsVars, seenVars>>

\* self.seen_event_ids.write().await gives the guard
AcquireWrite(t) ==
    /\ tasks[t].pc = "await_write"
    /\ RwLock_write_ready
    /\ tasks' = [tasks EXCEPT ![t].pc = IF tasks[t].op = "wipe" THEN "clear" ELSE "seen",
                              ![t].pre = Some(db.seen_event_ids)]
    /\ last' = [op |-> "write"]
    /\ UNCHANGED <<db, eventsVars, seenVars>>

\* self.seen_event_ids.read().await gives the guard
LockAcquireRead(t) ==
    /\ tasks[t].pc = "await_read"
    /\ RwLock_read_ready
    /\ LockStep(t, "reading")
    /\ last' = [op |-> "read"]
    /\ UNCHANGED <<db, eventsVars, seenVars>>

\* seen: match self.ids.get_mut(&event_id); Some(set) => set.insert(url)
SeenMatch(t) ==
    /\ tasks[t].pc = "seen"
    /\ LET ids == db.seen_event_ids.ids
           event_id == tasks[t].arg[1]
           relay_url == tasks[t].relay_url
       IN IF HashMap_contains_key(ids, event_id)
          THEN /\ LockTracker([db.seen_event_ids EXCEPT
                                  !.ids[event_id] = IF relay_url # None
                                                    THEN @ \cup {relay_url[1]} ELSE @])
               /\ LockRelease(t)
               /\ last' = [op |-> "seen", event_id |-> event_id, relay_url |-> relay_url,
                           pre |-> tasks[t].pre[1]]
          ELSE /\ LockStep(t, "check_capacity")
               /\ last' = [op |-> "step"]
               /\ UNCHANGED db
    /\ UNCHANGED <<eventsVars, seenVars>>

\* check_capacity: the test and self.queue.pop_back()
SeenCheckCapacity(t) ==
    /\ tasks[t].pc = "check_capacity"
    /\ LET tr == db.seen_event_ids
       IN IF tr.capacity # None /\ Len(tr.queue) >= tr.capacity[1] /\ tr.queue # <<>>
          THEN /\ LockTracker([tr EXCEPT !.queue = VecDeque_pop_back(@)])
               /\ tasks' = [tasks EXCEPT ![t].pc = "remove",
                                         ![t].popped = Some(VecDeque_back(tr.queue))]
          ELSE /\ LockStep(t, "insert")
               /\ UNCHANGED db
    /\ last' = [op |-> "step"]
    /\ UNCHANGED <<eventsVars, seenVars>>

\* check_capacity: self.ids.remove(&last)
SeenRemove(t) ==
    /\ tasks[t].pc = "remove"
    /\ LockTracker([db.seen_event_ids EXCEPT
                       !.ids = HashMap_remove(@, tasks[t].popped[1])])
    /\ LockStep(t, "insert")
    /\ last' = [op |-> "step"]
    /\ UNCHANGED <<eventsVars, seenVars>>

\* seen: self.ids.insert(event_id, set)
SeenInsert(t) ==
    /\ tasks[t].pc = "insert"
    /\ LET relay_url == tasks[t].relay_url
           set == IF relay_url # None THEN {relay_url[1]} ELSE {}
       IN LockTracker([db.seen_event_ids EXCEPT
                          !.ids = HashMap_insert(@, tasks[t].arg[1], set)])
    /\ LockStep(t, "push_front")
    /\ last' = [op |-> "step"]
    /\ UNCHANGED <<eventsVars, seenVars>>

\* seen: self.queue.push_front(event_id); the guard is dropped
SeenPushFront(t) ==
    /\ tasks[t].pc = "push_front"
    /\ LockTracker([db.seen_event_ids EXCEPT
                       !.queue = VecDeque_push_front(@, tasks[t].arg[1])])
    /\ LockRelease(t)
    /\ last' = [op |-> "seen", event_id |-> tasks[t].arg[1],
                relay_url |-> tasks[t].relay_url, pre |-> tasks[t].pre[1]]
    /\ UNCHANGED <<eventsVars, seenVars>>

\* clear: self.ids.clear()
ClearIds(t) ==
    /\ tasks[t].pc = "clear"
    /\ LockTracker([db.seen_event_ids EXCEPT !.ids = HashMap_new])
    /\ LockStep(t, "clear_queue")
    /\ last' = [op |-> "step"]
    /\ UNCHANGED <<eventsVars, seenVars>>

\* clear: self.queue.clear(); the guard is dropped
ClearQueue(t) ==
    /\ tasks[t].pc = "clear_queue"
    /\ LockTracker([db.seen_event_ids EXCEPT !.queue = <<>>])
    /\ LockRelease(t)
    /\ last' = [op |-> "clear", pre |-> tasks[t].pre[1]]
    /\ UNCHANGED <<eventsVars, seenVars>>

\* check_id: seen_event_ids.contains(event_id); the guard is dropped
LockCheckId(t) ==
    /\ tasks[t].op = "check_id"
    /\ tasks[t].pc = "reading"
    /\ last' = [op |-> "check_id", id |-> tasks[t].arg[1],
                status |-> MemoryDatabase_check_id_seen(db, tasks[t].arg[1])]
    /\ LockRelease(t)
    /\ UNCHANGED <<db, eventsVars, seenVars>>

\* event_seen_on_relays: seen_event_ids.get(event_id).cloned(); the guard is
\* dropped
LockEventSeenOnRelays(t) ==
    /\ tasks[t].op = "event_seen_on_relays"
    /\ tasks[t].pc = "reading"
    /\ last' = [op |-> "event_seen_on_relays", id |-> tasks[t].arg[1],
                relays |-> MemoryDatabase_event_seen_on_relays(db, tasks[t].arg[1])]
    /\ LockRelease(t)
    /\ UNCHANGED <<db, eventsVars, seenVars>>

DoLockCall ==
    \E t \in Tasks : \E op \in LockOperations :
        \E arg \in {None} \cup {Some(id) : id \in BackendIds} : LockCall(t, op, arg)
DoLockWipeHelper == \E t \in Tasks : LockWipeHelper(t)
DoAcquireWrite == \E t \in Tasks : AcquireWrite(t)
DoLockAcquireRead == \E t \in Tasks : LockAcquireRead(t)
DoSeenMatch == \E t \in Tasks : SeenMatch(t)
DoSeenCheckCapacity == \E t \in Tasks : SeenCheckCapacity(t)
DoSeenRemove == \E t \in Tasks : SeenRemove(t)
DoSeenInsert == \E t \in Tasks : SeenInsert(t)
DoSeenPushFront == \E t \in Tasks : SeenPushFront(t)
DoClearIds == \E t \in Tasks : ClearIds(t)
DoClearQueue == \E t \in Tasks : ClearQueue(t)
DoLockCheckId == \E t \in Tasks : LockCheckId(t)
DoLockEventSeenOnRelays == \E t \in Tasks : LockEventSeenOnRelays(t)

InitLock ==
    /\ InitEvents
    /\ InitSeen(None)
    /\ \E opts \in LockOptions : db = MemoryDatabase_with_opts(opts)
    /\ tasks = [t \in Tasks |-> LockIdle]
    /\ last = [op |-> "init"]

NextLock ==
    \/ DoLockCall
    \/ DoLockWipeHelper
    \/ DoAcquireWrite
    \/ DoLockAcquireRead
    \/ DoSeenMatch
    \/ DoSeenCheckCapacity
    \/ DoSeenRemove
    \/ DoSeenInsert
    \/ DoSeenPushFront
    \/ DoClearIds
    \/ DoClearQueue
    \/ DoLockCheckId
    \/ DoLockEventSeenOnRelays

SpecLock == InitLock /\ [][NextLock]_vars

(***************************************************************************)
(* SpecFacade: the operations of NostrDatabase and NostrEventsDatabase as  *)
(* the memory, ndb and SQLite backends implement them, by the shape of     *)
(* each body: it works on the store, it is todo!(), it returns             *)
(* Err(DatabaseError::NotSupported), or it ignores its arguments and       *)
(* returns a constant Ok.                                                  *)
(***************************************************************************)
\* impl NostrDatabase / NostrEventsDatabase for MemoryDatabase
MemoryDatabase_body(op) ==
    CASE op = "begin_txn" -> "todo"
      [] op \in {"wipe", "save_event", "check_id", "has_coordinate_been_deleted",
                 "event_id_seen", "event_seen_on_relays", "event_by_id", "count",
                 "query", "negentropy_items", "delete"} -> "store"

\* impl NostrDatabase / NostrEventsDatabase for NdbDatabase
NdbDatabase_body(op) ==
    CASE op \in {"wipe", "event_seen_on_relays", "delete"} -> "not_supported"
      [] op \in {"has_coordinate_been_deleted", "event_id_seen"} -> "constant"
      [] op \in {"save_event", "check_id", "event_by_id", "count", "begin_txn",
                 "negentropy_items"} -> "store"

\* impl NostrDatabase / NostrEventsDatabase for SQLiteDatabase
SQLiteDatabase_body(op) ==
    CASE op \in {"save_event", "check_id", "has_coordinate_been_deleted", "count",
                 "query", "negentropy_items", "delete"} -> "todo"
      [] op \in {"wipe", "event_id_seen", "event_seen_on_relays", "event_by_id"} -> "store"

Backends == {"Memory", "Ndb", "SQLite"}

\* the operations each impl block defines
FacadeOperations(backend) ==
    CASE backend = "Memory" ->
            {"wipe", "save_event", "check_id", "has_coordinate_been_deleted",
             "event_id_seen", "event_seen_on_relays", "event_by_id", "count",
             "begin_txn", "query", "negentropy_items", "delete"}
      [] backend = "Ndb" ->
            {"wipe", "save_event", "check_id", "has_coordinate_been_deleted",
             "event_id_seen", "event_seen_on_relays", "event_by_id", "count",
             "begin_txn", "negentropy_items", "delete"}
      [] backend = "SQLite" ->
            {"wipe", "save_event", "check_id", "has_coordinate_been_deleted",
             "event_id_seen", "event_seen_on_relays", "event_by_id", "count",
             "query", "negentropy_items", "delete"}

Body(backend, op) ==
    CASE backend = "Memory" -> MemoryDatabase_body(op)
      [] backend = "Ndb" -> NdbDatabase_body(op)
      [] backend = "SQLite" -> SQLiteDatabase_body(op)

\* what the caller of a body of this shape gets; a body on the store may
\* fail with the store's error where the code maps one (DatabaseError::backend)
Outcomes(body) ==
    CASE body = "todo" -> {"panic"}
      [] body = "not_supported" -> {"Err(NotSupported)"}
      [] body = "constant" -> {"Ok"}
      [] body = "store" -> {"Ok", "Err(Backend)"}

FacadeIdle == [pc |-> "idle", backend |-> "none", op |-> "none"]

\* a task calls an operation of a backend
FacadeCall(t, backend, op) ==
    /\ tasks[t].pc = "idle"
    /\ tasks' = [tasks EXCEPT ![t] = [pc |-> "pending", backend |-> backend, op |-> op]]
    /\ last' = [op |-> "call"]
    /\ UNCHANGED <<db, eventsVars, seenVars>>

\* the operation returns Ok or Err to the task
FacadeReturn(t) ==
    /\ tasks[t].pc = "pending"
    /\ \E outcome \in Outcomes(Body(tasks[t].backend, tasks[t].op)) \ {"panic"} :
          last' = [op |-> "facade", backend |-> tasks[t].backend,
                   operation |-> tasks[t].op, outcome |-> outcome]
    /\ tasks' = [tasks EXCEPT ![t] = FacadeIdle]
    /\ UNCHANGED <<db, eventsVars, seenVars>>

\* the operation panics: the task unwinds and calls nothing more
FacadePanic(t) ==
    /\ tasks[t].pc = "pending"
    /\ "panic" \in Outcomes(Body(tasks[t].backend, tasks[t].op))
    /\ last' = [op |-> "facade", backend |-> tasks[t].backend,
                operation |-> tasks[t].op, outcome |-> "panic"]
    /\ tasks' = [tasks EXCEPT ![t] = [FacadeIdle EXCEPT !.pc = "panicked"]]
    /\ UNCHANGED <<db, eventsVars, seenVars>>

DoFacadeCall ==
    \E t \in Tasks : \E backend \in Backends :
        \E op \in FacadeOperations(backend) : FacadeCall(t, backend, op)
DoFacadeReturn == \E t \in Tasks : FacadeReturn(t)
DoFacadePanic == \E t \in Tasks : FacadePanic(t)

InitFacade ==
    /\ InitEvents
    /\ InitSeen(None)
    /\ db = MemoryDatabase_new
    /\ tasks = [t \in Tasks |-> FacadeIdle]
    /\ last = [op |-> "init"]

NextFacade ==
    \/ DoFacadeCall
    \/ DoFacadeReturn
    \/ DoFacadePanic

SpecFacade == InitFacade /\ [][NextFacade]_vars

(***************************************************************************)
(* SpecMemory: one caller on one MemoryDatabase, each call awaited before  *)
(* the next.  The caller keeps what it needs to judge later answers: the   *)
(* events of a coordinate and the deletions of coordinates it got Success  *)
(* for, which of these deletions came after the last wipe, and whether it  *)
(* only ever saved.                                                        *)
(***************************************************************************)
\* events stored or only ids tracked; no capacity, or room for two
MemoryOptions ==
    {MemoryDatabaseOptions(events, max_events) :
        events \in BOOLEAN, max_events \in {None, Some(2)}}

Caller == "t1"

CallerIdle(accepted, recorded, only_saves) ==
    [pc |-> "idle", accepted |-> accepted, recorded |-> recorded,
     only_saves |-> only_saves]

Remember(accepted, recorded, only_saves) ==
    tasks' = [tasks EXCEPT ![Caller] = CallerIdle(accepted, recorded, only_saves)]

\* the events handed to save_event, fewer when only ids are tracked
SaveUniverse ==
    IF db.opts.events THEN StoreEvents \ {StoreTable[2]}
    ELSE {StoreTable[1], StoreTable[2], StoreTable[3]}

\* the ids handed to event_id_seen and event_seen_on_relays; with events
\* stored the tracker is left alone
SeenUniverse ==
    IF db.opts.events THEN {} ELSE {StoreTable[1].id, StoreTable[2].id}

\* the ids handed to check_id and event_by_id
ReadIds == {StoreTable[1].id, StoreTable[4].id}

\* the filter lists handed to query and count
StoreFilterLists ==
    {<<Filter_author(PK_P)>>,
     <<Filter_limit(Filter_kind(KIND_TEXT_NOTE), 1)>>,
     <<Filter_limit(Filter_author(PK_P), 2)>>,
     <<Filter_limit(Filter_new, 1)>>,
     <<Filter_kind(KIND_TEXT_NOTE), Filter_kind(KIND_ADDRESSABLE)>>,
     <<Filter_limit(Filter_kind(KIND_TEXT_NOTE), 1), Filter_kind(KIND_EVENT_DELETION)>>}

\* the filter lists handed to count
CountFilterLists ==
    {<<Filter_author(PK_P)>>, <<Filter_kind(KIND_TEXT_NOTE), Filter_author(PK_P)>>}

DeleteFilters == {Filter_id(StoreTable[4].id), Filter_kind(KIND_TEXT_NOTE)}

Timestamps == {StoreTable[7].created_at, StoreTable[6].created_at, StoreTable[4].created_at}

MemSaveEvent(event) ==
    /\ \E r \in Memory_save_event(db, event) :
          /\ db' = r.db
          /\ last' = [op |-> "save_event", event |-> event, status |-> r.status,
                      pre |-> db]
          /\ LET c == tasks[Caller]
                 ok == r.status = "Success"
             IN Remember(
                   IF ok /\ (Event_coordinate(event) # None \/ event.a_tags # {})
                   THEN c.accepted \cup {event} ELSE c.accepted,
                   IF ok /\ event.kind = KIND_EVENT_DELETION
                   THEN c.recorded \cup
                          {[coordinate |-> a, timestamp |-> event.created_at] :
                              a \in {x \in event.a_tags : x.public_key = event.pubkey}}
                   ELSE c.recorded,
                   c.only_saves)
    /\ UNCHANGED <<eventsVars, seenVars>>

MemCheckId(event_id) ==
    /\ last' = [op |-> "check_id", id |-> event_id, status |-> Memory_check_id(db, event_id)]
    /\ UNCHANGED <<db, tasks, eventsVars, seenVars>>

MemHasCoordinateBeenDeleted(coordinate, timestamp) ==
    /\ last' = [op |-> "has_coordinate_been_deleted", coordinate |-> coordinate,
                timestamp |-> timestamp,
                deleted |-> Memory_has_coordinate_been_deleted(db, coordinate, timestamp)]
    /\ UNCHANGED <<db, tasks, eventsVars, seenVars>>

MemEventIdSeen(event_id, relay_url) ==
    /\ db' = Memory_event_id_seen(db, event_id, relay_url)
    /\ last' = [op |-> "event_id_seen"]
    /\ UNCHANGED <<tasks, eventsVars, seenVars>>

MemEventSeenOnRelays(event_id) ==
    /\ last' = [op |-> "event_seen_on_relays", id |-> event_id,
                relays |-> Memory_event_seen_on_relays(db, event_id)]
    /\ UNCHANGED <<db, tasks, eventsVars, seenVars>>

MemEventById(id) ==
    /\ last' = [op |-> "event_by_id", id |-> id, event |-> Memory_event_by_id(db, id)]
    /\ UNCHANGED <<db, tasks, eventsVars, seenVars>>

MemCount(filters) ==
    /\ last' = [op |-> "count", filters |-> filters, count |-> Memory_count(db, filters)]
    /\ UNCHANGED <<db, tasks, eventsVars, seenVars>>

MemQuery(filters) ==
    /\ last' = [op |-> "query", filters |-> filters, events |-> Memory_query(db, filters)]
    /\ UNCHANGED <<db, tasks, eventsVars, seenVars>>

MemDelete(filter) ==
    /\ db' = Memory_delete(db, filter)
    /\ last' = [op |-> "delete"]
    /\ Remember(tasks[Caller].accepted, tasks[Caller].recorded, FALSE)
    /\ UNCHANGED <<eventsVars, seenVars>>

MemWipe ==
    /\ db' = Memory_wipe(db)
    /\ last' = [op |-> "wipe"]
    /\ Remember(tasks[Caller].accepted, {}, FALSE)
    /\ UNCHANGED <<eventsVars, seenVars>>

DoMemSaveEvent == \E event \in SaveUniverse : MemSaveEvent(event)
DoMemCheckId == \E id \in ReadIds : MemCheckId(id)
DoMemHasCoordinateBeenDeleted ==
    \E timestamp \in Timestamps : MemHasCoordinateBeenDeleted(CoordX, timestamp)
DoMemEventIdSeen == \E id \in SeenUniverse : MemEventIdSeen(id, BackendRelayUrl)
DoMemEventSeenOnRelays == \E id \in SeenUniverse : MemEventSeenOnRelays(id)
DoMemEventById == \E id \in ReadIds : MemEventById(id)
DoMemCount == \E filters \in CountFilterLists : MemCount(filters)
DoMemQuery == \E filters \in StoreFilterLists : MemQuery(filters)
DoMemDelete == \E filter \in DeleteFilters : MemDelete(filter)

InitMemory ==
    /\ InitEvents
    /\ InitSeen(None)
    /\ \E opts \in MemoryOptions : db = Memory_with_opts(opts)
    /\ tasks = [t \in Tasks |-> CallerIdle({}, {}, TRUE)]
    /\ last = [op |-> "init"]

NextMemory ==
    \/ DoMemSaveEvent
    \/ DoMemCheckId
    \/ DoMemHasCoordinateBeenDeleted
    \/ DoMemEventIdSeen
    \/ DoMemEventSeenOnRelays
    \/ DoMemEventById
    \/ DoMemCount
    \/ DoMemQuery
    \/ DoMemDelete
    \/ MemWipe

SpecMemory == InitMemory /\ [][NextMemory]_vars

(***************************************************************************)
(* Properties                                                              *)
(***************************************************************************)
E1 == EventTable[1]     \* created_at 100, id 01..
E2 == EventTable[2]     \* created_at 200, id 02..
E3 == EventTable[3]     \* created_at 100, id 03..
E4 == EventTable[4]     \* created_at 50
E5 == EventTable[5]     \* created_at 300

\* x is byte-lexicographically smaller than y (same length)
BytesLess(x, y) ==
    \E i \in 1..Len(x) : x[i] < y[i] /\ \A j \in 1..(i - 1) : x[j] = y[j]

\* a comes strictly before b: newer, or as old with the smaller id
Precedes(a, b) ==
    \/ a.created_at > b.created_at
    \/ a.created_at = b.created_at /\ BytesLess(a.id, b.id)

SortedDescending(seq) == \A i, j \in 1..Len(seq) : i < j => Precedes(seq[i], seq[j])

OptionHead(seq) == IF seq = <<>> THEN None ELSE Some(seq[1])
OptionTail(seq) == IF seq = <<>> THEN None ELSE Some(seq[Len(seq)])

\* C1: after any sequence of insert, extend, extend_query_events and merge,
\* iter(), into_iter() and to_vec() of every collection yield its events by
\* created_at descending, ties by id ascending; first() is the head and
\* last() the tail of that sequence; the events (100, 01), (200, 02),
\* (100, 03) iterate as 200, 100/01, 100/03.
C1_OrderStability ==
    \A s \in Slots : Live(s) =>
        LET E == Coll(s) IN
        /\ SortedDescending(Events_iter(E))
        /\ SortedDescending(Events_into_iter(E))
        /\ SortedDescending(Events_to_vec(E))
        /\ Events_first(E) = OptionHead(Events_iter(E))
        /\ Events_last(E) = OptionTail(Events_iter(E))
        /\ Events_first_owned(E) = Events_first(E)
        /\ Events_last_owned(E) = Events_last(E)
        /\ Range(Events_iter(E)) = {E1, E2, E3} => Events_iter(E) = <<E2, E1, E3>>

\* C1 witness: a merge has produced the three events of the example, two of
\* them of the same created_at
C1_Witness ==
    /\ last.op = "merge"
    /\ last.self.set.set # <<>>
    /\ last.other.set.set # <<>>
    /\ Events_iter(Coll(last.slot)) = <<E2, E1, E3>>
    /\ Events_first(Coll(last.slot)) = Some(E2)
    /\ Events_last(Coll(last.slot)) = Some(E3)

\* the n events of S that come first in the order (all of S if it has fewer)
NewestN(S, n) == {e \in S : Cardinality({f \in S : Precedes(f, e)}) < n}

\* C2: a collection built from one filter with limit N holds at most N
\* events, and they are exactly the N newest of the distinct events handed
\* to it (all of them when there were fewer than N).
C2_CapacityBound ==
    \A s \in Slots :
        Live(s) =>
            LET E == Coll(s)
                N == E.set.capacity.max
            IN E.set.capacity.kind = "Bounded" =>
                /\ Events_len(E) <= N
                /\ Range(Events_iter(E)) = NewestN(offered[s], N)
                /\ Cardinality(offered[s]) < N => Range(Events_iter(E)) = offered[s]

\* C2 witness: limit 2, all five events handed over, the two newest kept
C2_Witness ==
    /\ Live("A")
    /\ Coll("A").set.capacity = Bounded(2, "Last")
    /\ offered["A"] = {E1, E2, E3, E4, E5}
    /\ Events_iter(Coll("A")) = <<E5, E2>>

Full(E) == E.set.capacity.kind = "Bounded" /\ Events_len(E) = E.set.capacity.max

\* C3: inserting an event v that is not present into a full bounded
\* collection: if v comes before the greatest (oldest) element G, exactly
\* G is removed and v inserted (inserted, evicted = G); otherwise v is
\* rejected and the collection is unchanged (not inserted, nothing evicted).
\* Limit 2 and inserts at 100, 200, 50, 300: 50 is rejected, 300 evicts 100,
\* iteration yields 300, 200.
C3_FullInsert ==
    (last.op = "insert" /\ Full(last.pre) /\ ~Events_contains(last.pre, last.event)) =>
        LET pre == last.pre
            post == Coll(last.slot)
            v == last.event
            G == Events_iter(pre)[Events_len(pre)]
        IN /\ IF Precedes(v, G)
              THEN /\ last.inserted
                   /\ last.evicted = Some(G)
                   /\ Range(Events_iter(post)) = (Range(Events_iter(pre)) \ {G}) \cup {v}
                   /\ Events_len(post) = Events_len(pre)
                   /\ post.set.capacity = pre.set.capacity
              ELSE /\ ~last.inserted
                   /\ last.evicted = None
                   /\ post = pre
           /\ (pre.set.capacity.max = 2 /\ last.offered_pre = {E1, E2} /\ v = E4) =>
                   (~last.inserted /\ Events_iter(post) = <<E2, E1>>)
           /\ (pre.set.capacity.max = 2 /\ last.offered_pre = {E1, E2, E4} /\ v = E5) =>
                   (last.evicted = Some(E1) /\ Events_iter(post) = <<E5, E2>>)

\* C3 witness: the end of the example, 300 inserted after 100, 200 and 50
C3_Witness ==
    /\ last.op = "insert"
    /\ last.pre.set.capacity = Bounded(2, "Last")
    /\ last.offered_pre = {E1, E2, E4}
    /\ last.event = E5
    /\ last.inserted
    /\ last.evicted = Some(E1)
    /\ Events_iter(Coll("A")) = <<E5, E2>>

\* C4: insert returns true whenever the collection did not contain the
\* event before the call, bounded or not, full or not.
C4_InsertTrueIfAbsent ==
    (last.op = "insert" /\ ~Events_contains(last.pre, last.event)) => last.inserted

\* C5: inserting an event that is present returns false, evicts nothing and
\* leaves members, length, capacity, hash and taint flag as they were.
C5_InsertPresent ==
    (last.op = "insert" /\ Events_contains(last.pre, last.event)) =>
        /\ ~last.inserted
        /\ last.evicted = None
        /\ Coll(last.slot) = last.pre
        /\ Events_iter(Coll(last.slot)) = Events_iter(last.pre)
        /\ Events_len(Coll(last.slot)) = Events_len(last.pre)

\* C5 witness: a full bounded collection, the event inserted again is its
\* newest, so it comes before the greatest element
C5_Witness ==
    /\ last.op = "insert"
    /\ Full(last.pre)
    /\ Events_len(last.pre) = 2
    /\ Events_first(last.pre) = Some(last.event)

\* C6: new(filters) is empty and untainted, and its capacity is
\* Bounded{max: L, policy: Last} exactly when the list is one filter with
\* limit L; an empty list, one filter without limit, or two or more filters
\* give Unbounded.
C6_New ==
    last.op = "new" =>
        LET E == Coll(last.slot)
            filters == last.filters
        IN /\ Events_is_empty(E)
           /\ Events_len(E) = 0
           /\ ~E.prev_not_match
           /\ \A L \in 0..(MaxLimit + 1) :
                  OCS_capacity(E.set) = Bounded(L, "Last")
                      <=> (Len(filters) = 1 /\ filters[1].limit = Some(L))
           /\ (Len(filters) # 1 \/ filters[1].limit = None)
                  => OCS_capacity(E.set) = Unbounded
           /\ OCS_capacity(E.set).kind \in {"Bounded", "Unbounded"}

\* C6 witness: two filters, each with a limit, give an unbounded collection
C6_Witness ==
    /\ last.op = "new"
    /\ Len(last.filters) = 2
    /\ \A i \in 1..2 : last.filters[i].limit # None
    /\ OCS_capacity(Coll(last.slot).set) = Unbounded

Mismatch(self, other) ==
    self.hash # other.hash \/ self.prev_not_match \/ other.prev_not_match

\* C7: merging two untainted collections of equal hash keeps the hash, stays
\* untainted and keeps the receiver's capacity, so the length stays within
\* the limit; the result iterates newest first (a at 100 and b at 200
\* iterate as b, a).
C7_MergeSameFilter ==
    (last.op = "merge" /\ ~Mismatch(last.self, last.other)) =>
        LET R == Coll(last.slot) IN
        /\ R.hash = last.self.hash
        /\ ~R.prev_not_match
        /\ OCS_capacity(R.set) = OCS_capacity(last.self.set)
        /\ OCS_capacity(R.set).kind = "Bounded" => Events_len(R) <= OCS_capacity(R.set).max
        /\ SortedDescending(Events_iter(R))
        /\ Range(Events_iter(R)) \subseteq
              Range(Events_iter(last.self)) \cup Range(Events_iter(last.other))
        /\ (/\ OCS_capacity(last.self.set) = Bounded(MaxLimit, "Last")
            /\ Events_iter(last.self) = <<E1>>
            /\ Events_iter(last.other) = <<E2>>)
              => Events_iter(R) = <<E2, E1>>

\* C7 witness: both built from the same limited filter, a in one and b in the
\* other, merged
C7_Witness ==
    /\ last.op = "merge"
    /\ last.self.hash = last.other.hash
    /\ ~last.self.prev_not_match
    /\ ~last.other.prev_not_match
    /\ OCS_capacity(last.self.set) = Bounded(MaxLimit, "Last")
    /\ Events_iter(last.self) = <<E1>>
    /\ Events_iter(last.other) = <<E2>>
    /\ Events_iter(Coll(last.slot)) = <<E2, E1>>

\* the general part of C8: a merge under a mismatch gives an unbounded,
\* tainted collection of hash 0 that holds every event of both
MergeMismatchKeepsAll ==
    (last.op = "merge" /\ Mismatch(last.self, last.other)) =>
        LET R == Coll(last.slot)
            both == Range(Events_iter(last.self)) \cup Range(Events_iter(last.other))
        IN /\ OCS_capacity(R.set) = Unbounded
           /\ R.hash = 0
           /\ R.prev_not_match
           /\ Range(Events_iter(R)) = both
           /\ Events_len(R) = Cardinality(both)

\* the example of C8: the receiver was built with a limit and given one
\* event, the argument was built with limit m and given m + 1 other events
MergeExample ==
    /\ last.op = "merge"
    /\ last.self.hash # last.other.hash
    /\ OCS_capacity(last.self.set).kind = "Bounded"
    /\ OCS_capacity(last.other.set).kind = "Bounded"
    /\ Cardinality(last.offered_self) = 1
    /\ Cardinality(last.offered_other) = OCS_capacity(last.other.set).max + 1
    /\ last.offered_self \cap last.offered_other = {}

\* C8 as claimed: ... and in the example the merged length is m + 2
\* (12 for limits 100 and 10).
C8_MergeDifferentFilters_Claimed ==
    /\ MergeMismatchKeepsAll
    /\ MergeExample => Events_len(Coll(last.slot)) = OCS_capacity(last.other.set).max + 2

\* C8 amended: a merge under a mismatch (different hashes, or either side
\* tainted) gives capacity Unbounded, hash 0, prev_not_match = true and holds
\* every event of both (len = |A u B|); in the example the argument holds
\* only its m newest events, so the merged length is m + 1 (11 for limits
\* 100 and 10).
C8_MergeDifferentFilters ==
    /\ MergeMismatchKeepsAll
    /\ MergeExample =>
          /\ Events_len(last.other) = OCS_capacity(last.other.set).max
          /\ Events_len(Coll(last.slot)) = OCS_capacity(last.other.set).max + 1

\* C8 witness: the example, merged
C8_Witness ==
    /\ MergeExample
    /\ OCS_capacity(Coll(last.slot).set) = Unbounded
    /\ Events_len(Coll(last.slot)) = 2

Tainted(E) ==
    E.prev_not_match /\ OCS_capacity(E.set) = Unbounded /\ E.hash = 0

\* C9: once a collection has prev_not_match = true, it stays tainted,
\* and every merge it takes part in, as receiver or as argument, gives
\* an Unbounded result of hash 0 with prev_not_match = true, also when the
\* partner's hash equals its own.
C9_TaintPermanent ==
    [][\A s \in Slots :
          (Live(s) /\ Coll(s).prev_not_match) =>
              IF last'.op \in {"new", "collect"} /\ last'.slot = s
              THEN TRUE
              ELSE IF last'.op = "merge" /\ s \in {last'.slot, last'.other_slot}
              THEN colls'[last'.slot] # None /\ Tainted(colls'[last'.slot][1])
              ELSE colls'[s] # None /\ Tainted(colls'[s][1])]_vars

\* C9 witness: a tainted collection is merged, as the argument, into a
\* collection whose hash equals its own, and earlier merges made it
C9_Witness ==
    /\ last.op = "merge"
    /\ last.other.prev_not_match
    /\ last.self.hash = last.other.hash
    /\ Events_len(last.other) >= 2
    /\ Tainted(Coll(last.slot))

\* C10: under a matching hash and no taint, merging the argument once more
\* into the result of the merge changes nothing: same elements, and the
\* capacity is still the receiver's original one.
C10_MergeIdempotent ==
    (last.op = "merge" /\ ~Mismatch(last.self, last.other)) =>
        LET once == Coll(last.slot)
            twice == Events_merge(once, last.other)
        IN /\ Events_eq(twice, once)
           /\ Events_iter(twice) = Events_iter(once)
           /\ OCS_capacity(twice.set) = OCS_capacity(last.self.set)
           /\ OCS_capacity(once.set) = OCS_capacity(last.self.set)

\* C10 witness: a bounded merge in which an event of the argument did not
\* make it into the result
C10_Witness ==
    /\ last.op = "merge"
    /\ ~Mismatch(last.self, last.other)
    /\ OCS_capacity(last.self.set).kind = "Bounded"
    /\ last.self.set.set # <<>>
    /\ \E e \in Range(Events_iter(last.other)) : ~Events_contains(Coll(last.slot), e)

\* E is what collecting its own iteration as a stream gives
FromStream(E) == E = Events_from_iter(MapOwned(Events_iter(E)))

\* C11: a collection collected from a QueryEvent stream has hash 0, the
\* taint flag set and an unbounded set holding every distinct event of the
\* stream; merging it with any collection (one built by Events::new with a
\* limit included), in either direction, yields an unbounded, tainted
\* collection that holds the events of both.
C11_StreamCollected ==
    /\ last.op = "collect" =>
            LET E == Coll(last.slot)
                stream == QueryEvents_into_iter(last.stream)
            IN /\ E.hash = 0
               /\ E.prev_not_match = TRUE
               /\ OCS_capacity(E.set) = Unbounded
               /\ Range(Events_iter(E)) = {QueryEvent_into_event(q) : q \in Range(stream)}
               /\ Events_len(E) = Cardinality({QueryEvent_id(q) : q \in Range(stream)})
    /\ (last.op = "merge" /\ (FromStream(last.self) \/ FromStream(last.other))) =>
            LET R == Coll(last.slot) IN
            /\ OCS_capacity(R.set) = Unbounded
            /\ R.hash = 0
            /\ R.prev_not_match = TRUE
            /\ Range(Events_iter(R)) =
                    Range(Events_iter(last.self)) \cup Range(Events_iter(last.other))

\* C11 witness: a full collection built by Events::new from a limited filter
\* is merged with a stream-collected one holding another event; the result
\* outgrows the limit
C11_Witness ==
    /\ last.op = "merge"
    /\ last.self = Events_extend(Events_new(<<Filter(1, Some(MaxLimit))>>),
                                  Events_iter(last.self))
    /\ Full(last.self)
    /\ FromStream(last.other)
    /\ ~Events_is_empty(last.other)
    /\ Events_len(Coll(last.slot)) > MaxLimit
    /\ Coll(last.slot).prev_not_match

\* C12: two collections are equal exactly when they hold the same events;
\* filter list, hash, capacity and taint flag play no part (different
\* filters and the same event: equal; different events: unequal).
C12_Equality ==
    (Live("A") /\ Live("B")) =>
        LET A == Coll("A")
            B == Coll("B")
        IN /\ Events_eq(A, B) <=> (Range(Events_iter(A)) = Range(Events_iter(B)))
           /\ Events_eq(A, B) <=> Events_eq(B, A)
           /\ Events_eq(A, A)
           /\ (Events_iter(A) = <<E1>> /\ Events_iter(B) = <<E1>>) => Events_eq(A, B)
           /\ (Events_iter(A) = <<E1>> /\ Events_iter(B) = <<E2>>) => ~Events_eq(A, B)

\* C12 witness: the same events in a bounded collection built from a filter
\* and in an unbounded, tainted one of another hash
C12_Witness ==
    /\ Live("A")
    /\ Live("B")
    /\ Coll("A").hash # Coll("B").hash
    /\ Coll("A").hash # 0
    /\ Coll("B").hash = 0
    /\ Coll("A").prev_not_match # Coll("B").prev_not_match
    /\ OCS_capacity(Coll("A").set) = Bounded(MaxLimit, "Last")
    /\ OCS_capacity(Coll("B").set) = Unbounded
    /\ Events_len(Coll("A")) = 2
    /\ Events_eq(Coll("A"), Coll("B"))

\* C13: two QueryEvent values, owned or borrowed, are equal exactly when
\* their ids are equal; cmp gives Equal exactly when they are equal; cmp is
\* a total order (antisymmetric, transitive, total) by created_at
\* descending, then id ascending.
C13_QueryEventOrder ==
    last.op = "cmp" =>
        LET a == last.a
            b == last.b
            Le(x, y) == QueryEvent_cmp(x, y) \in {"Less", "Equal"}
        IN /\ last.eq <=> (QueryEvent_id(a) = QueryEvent_id(b))
           /\ (last.ordering = "Equal") <=> last.eq
           /\ last.ordering \in {"Less", "Equal", "Greater"}
           /\ QueryEvent_cmp(b, a) = Reverse(last.ordering)
           /\ (Le(a, b) /\ Le(b, a)) => last.eq
           /\ \A c \in QueryEventUniverse :
                  /\ (Le(a, b) /\ Le(b, c)) => Le(a, c)
                  /\ (last.ordering = "Less" /\ Le(b, c)) => QueryEvent_cmp(a, c) = "Less"
           /\ (last.ordering = "Less") <=> Precedes(a.event, b.event)

\* C13 witness: an owned and a borrowed view of one event compare Equal
C13_Witness ==
    /\ last.op = "cmp"
    /\ last.a = Owned(E1)
    /\ last.b = Borrowed(E1)
    /\ last.eq
    /\ last.ordering = "Equal"

\* the ids passed to seen in the logged calls
LogIds(log) == {log[i].id : i \in 1..Len(log)}

\* C14: in every reachable state of the tracker, whatever its capacity, the
\* keys of the id map are the ids of the queue and the queue holds no id
\* twice, so map and queue have the same length.
C14_MapQueueAgree ==
    /\ DOMAIN tracker.ids = Range(tracker.queue)
    /\ \A i, j \in 1..Len(tracker.queue) : tracker.queue[i] = tracker.queue[j] => i = j
    /\ HashMap_len(tracker.ids) = Len(tracker.queue)

\* C14 witness: a full tracker of capacity 2 has evicted an id and tracks
\* two others
C14_Witness ==
    /\ last.op = "seen"
    /\ tracker.capacity = Some(2)
    /\ Len(last.pre.queue) = 2
    /\ ~SeenTracker_contains(last.pre, last.event_id)
    /\ Len(tracker.queue) = 2
    /\ DOMAIN tracker.ids # DOMAIN last.pre.ids

\* C15: whenever a capacity is configured, whatever its value, the queue
\* length, and so the number of tracked ids, is at most that capacity in
\* every reachable state.
C15_CapacityBound ==
    tracker.capacity # None =>
        /\ Len(tracker.queue) <= tracker.capacity[1]
        /\ HashMap_len(tracker.ids) <= tracker.capacity[1]

\* the calls logged so far were made with pairwise different ids
DistinctCalls(log) == \A i, j \in 1..Len(log) : log[i].id = log[j].id => i = j

\* the index in the log of the call that inserted the tracked id x
InsertedAt(log, x) ==
    CHOOSE i \in 1..Len(log) :
        /\ log[i].id = x
        /\ log[i].inserted
        /\ \A j \in (i + 1)..Len(log) : ~(log[j].id = x /\ log[j].inserted)

\* the id of the ids S that was inserted earliest
Earliest(log, S) ==
    CHOOSE x \in S : \A y \in S : InsertedAt(log, x) <= InsertedAt(log, y)

\* after k calls with distinct ids, exactly the last N are contained
LastNContained ==
    DistinctCalls(seen_log) =>
        LET N == tracker.capacity[1]
            k == Len(seen_log)
        IN \A j \in 1..k :
               SeenTracker_contains(tracker, seen_log[j].id) <=> (j > k - N)

\* an insertion into a tracker holding capacity ids evicts exactly the id
\* inserted earliest among the tracked ones
EvictsEarliest ==
    (/\ last.op = "seen"
     /\ ~SeenTracker_contains(last.pre, last.event_id)
     /\ Len(last.pre.queue) >= tracker.capacity[1]
     /\ last.pre.queue # <<>>) =>
        LET before == SubSeq(seen_log, 1, Len(seen_log) - 1)
            oldest == Earliest(before, DOMAIN last.pre.ids)
        IN DOMAIN tracker.ids = (DOMAIN last.pre.ids \ {oldest}) \cup {last.event_id}

\* C16: eviction is first-in-first-out: with capacity N, after seen was
\* called with distinct ids i1..ik, k > N, in that order, i_j is contained
\* exactly for j > k - N (capacity 2 and id0, id1, id2: id0 is gone, id1 and
\* id2 remain); each insertion of a new id into a full tracker evicts exactly
\* the id inserted earliest among those tracked.
C16_Fifo ==
    tracker.capacity # None =>
        /\ LastNContained
        /\ EvictsEarliest
        /\ (tracker.capacity = Some(2) /\ Len(seen_log) = 3
                /\ \A j \in 1..3 : seen_log[j].id = EventId_from_byte(j - 1)) =>
               /\ ~SeenTracker_contains(tracker, EventId_from_byte(0))
               /\ SeenTracker_contains(tracker, EventId_from_byte(1))
               /\ SeenTracker_contains(tracker, EventId_from_byte(2))

\* C17: with no capacity the tracker never evicts: every id passed to seen
\* since the last clear is in the map and in the queue, and map and queue
\* are as long as the number of distinct ids seen.
C17_NoCapacityNoEviction ==
    tracker.capacity = None =>
        /\ \A i \in 1..Len(seen_log) :
               /\ SeenTracker_contains(tracker, seen_log[i].id)
               /\ seen_log[i].id \in Range(tracker.queue)
        /\ HashMap_len(tracker.ids) = Cardinality(LogIds(seen_log))
        /\ Len(tracker.queue) = Cardinality(LogIds(seen_log))

\* C17 witness: the three ids of the test, one of them seen twice
C17_Witness ==
    /\ tracker.capacity = None
    /\ Len(seen_log) = 4
    /\ LogIds(seen_log) = {EventId_from_byte(0), EventId_from_byte(1), EventId_from_byte(2)}
    /\ Len(tracker.queue) = 3

\* C18: seen(id, peer) for a tracked id adds peer, when given, to the relay
\* set of id and changes nothing else: queue and its order, tracked ids,
\* relay sets of other ids and capacity are as before, nothing is evicted
\* even from a full tracker, and the position of id is not refreshed; the
\* relay set of a tracked id only grows.
C18_SeenTracked ==
    (last.op = "seen" /\ SeenTracker_contains(last.pre, last.event_id)) =>
        LET pre == last.pre
            id == last.event_id
            added == IF last.relay_url = None THEN {} ELSE {last.relay_url[1]}
        IN /\ tracker.queue = pre.queue
           /\ DOMAIN tracker.ids = DOMAIN pre.ids
           /\ tracker.capacity = pre.capacity
           /\ \A x \in DOMAIN pre.ids : x # id => tracker.ids[x] = pre.ids[x]
           /\ tracker.ids[id] = pre.ids[id] \cup added
           /\ SeenTracker_get(tracker, id) = Some(pre.ids[id] \cup added)

\* C18 witness: the oldest id of a full tracker is seen again from a second
\* relay and stays at the back of the queue
C18_Witness ==
    /\ last.op = "seen"
    /\ last.pre.capacity = Some(2)
    /\ Len(last.pre.queue) = 2
    /\ last.event_id = VecDeque_back(last.pre.queue)
    /\ last.relay_url # None
    /\ tracker.ids[last.event_id] = RelayUrls
    /\ last.pre.ids[last.event_id] # RelayUrls
    /\ VecDeque_back(tracker.queue) = last.event_id

\* a check_id has returned to a task whose previous call was save_event of
\* the same id
CheckAfterSave == last.op = "check_id" /\ last.after_save # None

Completed(op, arg, d) ==
    CASE op = "save_event" -> {r.db : r \in MemoryDatabase_save_event(d, arg[1])}
      [] op = "event_id_seen" -> {MemoryDatabase_event_id_seen(d, arg[1], BackendRelayUrl)}
      [] op = "delete" -> {MemoryDatabase_delete(d, arg[1])}
      [] op = "wipe" -> {MemoryDatabase_wipe(d)}
      [] OTHER -> {d}

\* C20: every async operation (save_event, event_id_seen, delete, wipe) is
\* cancel-safe: when its pending future is dropped at a suspension point,
\* helper and seen tracker together are exactly as before the call or
\* exactly as after the completed call, never partially changed (stated for
\* calls during which no other task wrote).
C20_CancelSafe ==
    (last.op = "cancel" /\ last.pre # None) =>
        \/ db = last.pre[1]
        \/ db \in Completed(last.of, last.arg, last.pre[1])

(***************************************************************************)
(* The nostrdb backend (nostr-ndb/src/lib.rs).  A nostrdb filter is the    *)
(* set of the fields the builder was given: [field, key, values], key     *)
(* being the letter of a tag field.  A 64-bit unsigned integer is kept as *)
(* its four 16-bit limbs, least significant first.                         *)
(***************************************************************************)
MAX_RESULTS == 10000

U16_MODULUS == 65536

Kind_as_u16(kind) == kind % U16_MODULUS

\* `as u64` narrowed through a byte
U16_as_u64_through_u8(v) == <<v % 256, 0, 0, 0>>

\* `as u64` of a u16: zero-extension
U16_as_u64(v) == <<v % U16_MODULUS, 0, 0, 0>>

\* the u32 kind of a stored note, compared with the u64 values of a filter
U32_as_u64(v) == <<v % U16_MODULUS, (v \div U16_MODULUS) % U16_MODULUS, 0, 0>>

NdbField(field, key, values) == [field |-> field, key |-> key, values |-> values]

\* the conversion without the emptiness checks
ndb_filter_conversion_unchecked(f) ==
    (IF f.ids # None THEN {NdbField("ids", None, f.ids[1])} ELSE {})
    \cup (IF f.authors # None THEN {NdbField("authors", None, f.authors[1])} ELSE {})
    \cup (IF f.kinds # None
          THEN {NdbField("kinds", None, {U16_as_u64(Kind_as_u16(k)) : k \in f.kinds[1]})}
          ELSE {})
    \cup {NdbField("tags", Some(l), f.generic_tags[l]) : l \in DOMAIN f.generic_tags}
    \cup (IF f.since # None THEN {NdbField("since", None, {f.since[1]})} ELSE {})
    \cup (IF f.until # None THEN {NdbField("until", None, {f.until[1]})} ELSE {})
    \cup (IF f.limit # None THEN {NdbField("limit", None, {f.limit[1]})} ELSE {})

ndb_filter_conversion(f) ==
    (IF f.ids # None /\ f.ids[1] # {} THEN {NdbField("ids", None, f.ids[1])} ELSE {})
    \cup (IF f.authors # None /\ f.authors[1] # {}
          THEN {NdbField("authors", None, f.authors[1])} ELSE {})
    \cup (IF f.kinds # None /\ f.kinds[1] # {}
          THEN {NdbField("kinds", None, {U16_as_u64(Kind_as_u16(k)) : k \in f.kinds[1]})}
          ELSE {})
    \cup (IF DOMAIN f.generic_tags # {}
          THEN {NdbField("tags", Some(l), f.generic_tags[l]) : l \in DOMAIN f.generic_tags}
          ELSE {})
    \cup (IF f.since # None THEN {NdbField("since", None, {f.since[1]})} ELSE {})
    \cup (IF f.until # None THEN {NdbField("until", None, {f.until[1]})} ELSE {})
    \cup (IF f.limit # None THEN {NdbField("limit", None, {f.limit[1]})} ELSE {})

RECURSIVE ndb_filters(_)
ndb_filters(filters) ==
    IF filters = <<>> THEN <<>>
    ELSE <<ndb_filter_conversion(Head(filters))>> \o ndb_filters(Tail(filters))

\* a field of a nostrdb filter selects the notes that carry one of its values
NdbField_match(c, note) ==
    CASE c.field = "ids" -> note.id \in c.values
      [] c.field = "authors" -> note.pubkey \in c.values
      [] c.field = "kinds" -> U32_as_u64(note.kind) \in c.values
      [] c.field = "tags" -> c.values \cap Event_tag_values(note, c.key[1]) # {}
      [] c.field = "since" -> \A v \in c.values : v <= note.created_at
      [] c.field = "until" -> \A v \in c.values : note.created_at <= v
      [] OTHER -> TRUE

NdbFilter_match(nf, note) == \A c \in nf : NdbField_match(c, note)

NdbFilter_limit(nf) ==
    IF \E c \in nf : c.field = "limit"
    THEN Some(CHOOSE v \in UNION {c.values : c \in {x \in nf : x.field = "limit"}} : TRUE)
    ELSE None

\* The store: the notes the model tells apart, and bulk further text notes
\* of one author and one second, older than all of these, that no filter
\* names by id.
NdbStore(notes, bulk) == [notes |-> notes, bulk |-> bulk]

BulkNote == StoreEvent(<<0, 0>>, 1, KIND_TEXT_NOTE, PK_Q, None, {}, {})

NdbResult(notes, bulk) == [notes |-> notes, bulk |-> bulk]

NdbResult_len(r) == Cardinality(r.notes) + r.bulk

\* the stored notes a nostrdb filter selects, its limit apart
Ndb_matching(store, nf) ==
    NdbResult({e \in store.notes : NdbFilter_match(nf, e)},
              IF NdbFilter_match(nf, BulkNote) THEN store.bulk ELSE 0)

\* Ndb::query for one filter into a buffer of capacity results: the newest
\* notes within the limit of the filter; when the buffer is too small for
\* them, as many as it takes, whichever the scan yields.
Ndb_query_filter(store, nf, capacity) ==
    LET m == Ndb_matching(store, nf)
        total == NdbResult_len(m)
        limit == NdbFilter_limit(nf)
        want == IF limit # None /\ limit[1] < total THEN limit[1] ELSE total
        newest == NewestN(m.notes, want)
    IN IF want <= capacity
       THEN {NdbResult(newest, want - Cardinality(newest))}
       ELSE {NdbResult(S, capacity - Cardinality(S)) :
                S \in {T \in SUBSET m.notes :
                          Cardinality(T) <= capacity /\ capacity - Cardinality(T) <= m.bulk}}

\* Ndb::query: the results of the filters one after the other into one
\* buffer of max_results results
RECURSIVE Ndb_query(_, _, _)
Ndb_query(store, nfs, max_results) ==
    IF nfs = <<>> THEN {<<>>}
    ELSE UNION {{<<r>> \o rest : rest \in Ndb_query(store, Tail(nfs), max_results - NdbResult_len(r))} :
                   r \in Ndb_query_filter(store, Head(nfs), max_results)}

\* ndb_query with a buffer of one result more
ndb_query_one_more(store, filters) == Ndb_query(store, ndb_filters(filters), MAX_RESULTS + 1)

ndb_query(store, filters) == Ndb_query(store, ndb_filters(filters), MAX_RESULTS)

RECURSIVE NdbResults_len(_)
NdbResults_len(rs) == IF rs = <<>> THEN 0 ELSE NdbResult_len(Head(rs)) + NdbResults_len(Tail(rs))

\* ndb_note_to_event: the u32 kind of the note must fit the u16 of Kind
\* (note.kind().try_into()), otherwise the conversion is an error
ndb_note_to_event(note) ==
    IF note.kind < U16_MODULUS THEN [ok |-> TRUE, event |-> Borrowed(note)]
    ELSE [ok |-> FALSE, event |-> None]

\* Ndb::get_note_by_id: the note of that id, an error when there is none
Ndb_get_note_by_id(store, id) ==
    IF \E n \in store.notes : n.id = id
    THEN [ok |-> TRUE, note |-> CHOOSE n \in store.notes : n.id = id]
    ELSE [ok |-> FALSE, note |-> None]

\* ndb_note_to_neg_item: (id, created_at) of a note
ndb_note_to_neg_item(note) == <<note.id, note.created_at>>

(***************************************************************************)
(* State machine: NdbDatabase.  db is the nostrdb directory that was       *)
(* opened, with the notes handed to process_event and not yet written;     *)
(* tasks holds the open transaction, a view of the store as it was when    *)
(* the transaction began.                                                  *)
(***************************************************************************)
\* the notes found in the directory when it is opened
BulkSizes == {0, MAX_RESULTS, MAX_RESULTS + 1}

NdbEvents == {StoreTable[1], StoreTable[2], StoreTable[3]}

\* a note whose kind is beyond u16, written to the directory by another
\* user of nostrdb
WideKindNote == StoreEvent(<<9, 9>>, StoreTable[6].created_at, U16_MODULUS + KIND_TEXT_NOTE,
                           PK_P, None, {}, {})

\* what NdbDatabase::open finds in the directory
NdbDirectories ==
    {[notes |-> {}, bulk |-> bulk, queue |-> {}] : bulk \in BulkSizes}
    \cup {[notes |-> {WideKindNote}, bulk |-> 0, queue |-> {}]}

\* the ids handed to check_id and event_by_id
NdbIds == {StoreTable[1].id, StoreTable[4].id}

\* a filter whose sets are all present and empty
FilterEmptySets == [Filter_new EXCEPT !.ids = Some({}), !.authors = Some({}), !.kinds = Some({})]

\* an author, a kind above 255 and a time window
FilterWindow ==
    [Filter_new EXCEPT !.authors = Some({PK_P}), !.kinds = Some({KIND_ADDRESSABLE}),
                       !.since = Some(StoreTable[1].created_at),
                       !.until = Some(StoreTable[6].created_at)]

Filter_identifier(values) == [Filter_new EXCEPT !.generic_tags = [l \in {"d"} |-> values]]

NdbFilters ==
    {Filter_new,
     Filter_kind(KIND_TEXT_NOTE),
     Filter_limit(Filter_kind(KIND_TEXT_NOTE), 1),
     FilterEmptySets,
     FilterWindow,
     Filter_identifier({"x"}),
     Filter_identifier({}),
     Filter_id(StoreTable[2].id)}

\* the filter lists handed to count
NdbFilterLists ==
    {<<f>> : f \in NdbFilters}
    \cup {<<Filter_kind(KIND_ADDRESSABLE), Filter_kind(KIND_TEXT_NOTE)>>}

\* the filter lists handed to the query of a transaction
NdbTxnFilterLists ==
    {<<Filter_new>>, <<FilterWindow>>, <<Filter_identifier({})>>,
     <<Filter_kind(KIND_ADDRESSABLE), Filter_kind(KIND_TEXT_NOTE)>>}

\* the filters handed to negentropy_items
NdbNegentropyFilters ==
    {Filter_kind(KIND_TEXT_NOTE), Filter_limit(Filter_kind(KIND_TEXT_NOTE), 1),
     Filter_identifier({"x"})}

NdbView == NdbStore(db.notes, db.bulk)

NdbSaveEvent(event) ==
    /\ db' = [db EXCEPT !.queue = @ \cup {event}]
    /\ last' = [op |-> "save_event", event |-> event, status |-> "Success"]
    /\ UNCHANGED <<tasks, eventsVars, seenVars>>

\* the writer of nostrdb takes a note from the queue; a note it has is kept
NdbIngest ==
    /\ \E event \in db.queue :
          db' = [db EXCEPT !.queue = @ \ {event}, !.notes = @ \cup {event}]
    /\ UNCHANGED <<last, tasks, eventsVars, seenVars>>

NdbCount(filters) ==
    /\ \E res \in ndb_query(NdbView, filters) :
          last' = [op |-> "count", filters |-> filters, store |-> NdbView,
                   translated |-> ndb_filters(filters),
                   res |-> res, count |-> NdbResults_len(res)]
    /\ UNCHANGED <<db, tasks, eventsVars, seenVars>>

NdbBeginTxn ==
    /\ tasks.txn = None
    /\ tasks' = [txn |-> Some(NdbView)]
    /\ last' = [op |-> "begin_txn"]
    /\ UNCHANGED <<db, eventsVars, seenVars>>

NdbTxnQuery(filters) ==
    /\ tasks.txn # None
    /\ \E res \in ndb_query(tasks.txn[1], filters) :
          last' = [op |-> "txn_query", filters |-> filters, store |-> tasks.txn[1],
                   translated |-> ndb_filters(filters),
                   res |-> res, count |-> NdbResults_len(res),
                   result |-> "Ok",
                   events |-> [i \in 1..Len(res) |->
                                 {ndb_note_to_event(n).event :
                                     n \in {x \in res[i].notes : ndb_note_to_event(x).ok}}]]
    /\ UNCHANGED <<db, tasks, eventsVars, seenVars>>

NdbCheckId(id) ==
    /\ last' = [op |-> "check_id", id |-> id, store |-> NdbView,
                status |-> IF Ndb_get_note_by_id(NdbView, id).ok
                           THEN "Saved" ELSE "NotExistent"]
    /\ UNCHANGED <<db, tasks, eventsVars, seenVars>>

NdbEventById(id) ==
    /\ LET note == Ndb_get_note_by_id(NdbView, id)
       IN last' = [op |-> "event_by_id", id |-> id, store |-> NdbView,
                   result |-> IF ~note.ok THEN "Err"
                              ELSE IF ~ndb_note_to_event(note.note).ok THEN "Err"
                              ELSE "Ok",
                   event |-> IF note.ok /\ ndb_note_to_event(note.note).ok
                             THEN Some(QueryEvent_into_event(ndb_note_to_event(note.note).event))
                             ELSE None]
    /\ UNCHANGED <<db, tasks, eventsVars, seenVars>>

NdbTxnDrop ==
    /\ tasks.txn # None
    /\ tasks' = [txn |-> None]
    /\ last' = [op |-> "drop_txn"]
    /\ UNCHANGED <<db, eventsVars, seenVars>>

NdbNegentropyItems(filter) ==
    /\ \E res \in ndb_query(NdbView, <<filter>>) :
          last' = [op |-> "negentropy_items", filters |-> <<filter>>, store |-> NdbView,
                   translated |-> ndb_filters(<<filter>>),
                   res |-> res, count |-> NdbResults_len(res),
                   items |-> {ndb_note_to_neg_item(note) : note \in res[1].notes}]
    /\ UNCHANGED <<db, tasks, eventsVars, seenVars>>

DoNdbSaveEvent == \E event \in NdbEvents : NdbSaveEvent(event)
DoNdbCheckId == \E id \in NdbIds : NdbCheckId(id)
DoNdbEventById == \E id \in NdbIds \cup {WideKindNote.id} : NdbEventById(id)
DoNdbCount == \E filters \in NdbFilterLists : NdbCount(filters)
DoNdbTxnQuery == \E filters \in NdbTxnFilterLists : NdbTxnQuery(filters)
DoNdbNegentropyItems == \E filter \in NdbNegentropyFilters : NdbNegentropyItems(filter)

InitNdb ==
    /\ InitEvents
    /\ InitSeen(None)
    /\ db \in NdbDirectories
    /\ tasks = [txn |-> None]
    /\ last = [op |-> "init"]

NextNdb ==
    \/ DoNdbSaveEvent
    \/ DoNdbCheckId
    \/ DoNdbEventById
    \/ NdbIngest
    \/ DoNdbCount
    \/ NdbBeginTxn
    \/ DoNdbTxnQuery
    \/ NdbTxnDrop
    \/ DoNdbNegentropyItems

SpecNdb == InitNdb /\ [][NextNdb]_vars

(***************************************************************************)
(* The filter a translation hands to the builder, call by call: the fields *)
(* in the order of the calls, the values of a field in the order in which  *)
(* the set of the filter is iterated.  Filter derives Hash (Events::new    *)
(* hashes the filter list), so its sets and its tag map are ordered        *)
(* collections: their iteration order is a function of their content.      *)
(***************************************************************************)
\* conversions in one run of the program
MaxTranslations == 3

RECURSIVE Ascending(_)
Ascending(S) ==
    IF S = {} THEN <<>>
    ELSE LET x == CHOOSE x \in S : TRUE IN <<x>> \o Ascending(S \ {x})

ReverseSeq(seq) == [i \in 1..Len(seq) |-> seq[Len(seq) + 1 - i]]

\* iteration of a hashed set: the order changes from call to call
HashSet_iter(S) == IF db.calls % 2 = 0 THEN Ascending(S) ELSE ReverseSeq(Ascending(S))

\* iteration of an ordered set or map: the order of its content
BTreeSet_iter(S) == Ascending(S)

RECURSIVE TagCalls(_, _)
TagCalls(generic_tags, keys) ==
    IF keys = <<>> THEN <<>>
    ELSE <<NdbField("tags", Some(Head(keys)), BTreeSet_iter(generic_tags[Head(keys)]))>>
         \o TagCalls(generic_tags, Tail(keys))

\* ndb_filter_conversion as the sequence of calls on the builder
ndb_filter_conversion_calls(f) ==
    (IF f.ids # None /\ f.ids[1] # {}
     THEN <<NdbField("ids", None, BTreeSet_iter(f.ids[1]))>> ELSE <<>>)
    \o (IF f.authors # None /\ f.authors[1] # {}
        THEN <<NdbField("authors", None, BTreeSet_iter(f.authors[1]))>> ELSE <<>>)
    \o (IF f.kinds # None /\ f.kinds[1] # {}
        THEN <<NdbField("kinds", None,
                        [i \in 1..Cardinality(f.kinds[1]) |->
                            U16_as_u64(Kind_as_u16(BTreeSet_iter(f.kinds[1])[i]))])>>
        ELSE <<>>)
    \o (IF DOMAIN f.generic_tags # {}
        THEN TagCalls(f.generic_tags, BTreeSet_iter(DOMAIN f.generic_tags)) ELSE <<>>)
    \o (IF f.since # None THEN <<NdbField("since", None, <<f.since[1]>>)>> ELSE <<>>)
    \o (IF f.until # None THEN <<NdbField("until", None, <<f.until[1]>>)>> ELSE <<>>)
    \o (IF f.limit # None THEN <<NdbField("limit", None, <<f.limit[1]>>)>> ELSE <<>>)

(***************************************************************************)
(* State machine: filters translated in several runs of the program.  db   *)
(* is the run and the number of conversions made in it; tasks remembers,   *)
(* for every filter translated so far, the first translation seen and      *)
(* whether the filter was translated again.                                *)
(***************************************************************************)
Runs == {1, 2}

TranslateFilters ==
    {Filter_new,
     [Filter_new EXCEPT !.ids = Some({StoreTable[1].id, StoreTable[2].id})],
     [Filter_new EXCEPT !.authors = Some({PK_P, PK_Q}),
                        !.kinds = Some({KIND_TEXT_NOTE, KIND_ADDRESSABLE})],
     [Filter_new EXCEPT !.generic_tags = [l \in {"d", "e"} |->
                                             IF l = "d" THEN {"x", "y"} ELSE {StoreTable[1].id}],
                        !.limit = Some(MaxLimit)],
     FilterWindow,
     FilterEmptySets}

TranslateFilter(f) ==
    /\ db.calls < MaxTranslations
    /\ LET filter == ndb_filter_conversion_calls(f)
       IN /\ last' = [op |-> "ndb_filter_conversion", f |-> f, filter |-> filter,
                      run |-> db.run, call |-> db.calls + 1]
          /\ tasks' = IF f \in DOMAIN tasks THEN [tasks EXCEPT ![f].again = TRUE]
                      ELSE [g \in DOMAIN tasks \cup {f} |->
                               IF g = f THEN [filter |-> filter, again |-> FALSE] ELSE tasks[g]]
    /\ db' = [db EXCEPT !.calls = @ + 1]
    /\ UNCHANGED <<eventsVars, seenVars>>

\* the program ends and is started again
NewRun ==
    /\ db.run + 1 \in Runs
    /\ db' = [run |-> db.run + 1, calls |-> 0]
    /\ last' = [op |-> "run"]
    /\ UNCHANGED <<tasks, eventsVars, seenVars>>

DoTranslateFilter == \E f \in TranslateFilters : TranslateFilter(f)

InitTranslate ==
    /\ InitEvents
    /\ InitSeen(None)
    /\ db = [run |-> 1, calls |-> 0]
    /\ tasks = [g \in {} |-> <<>>]
    /\ last = [op |-> "init"]

NextTranslate == DoTranslateFilter \/ NewRun

SpecTranslate == InitTranslate /\ [][NextTranslate]_vars

\* map and queue of a tracker hold the same ids, the queue none twice, and a
\* capacity of at least 1 bounds the queue
TrackerConsistent(t) ==
    /\ DOMAIN t.ids = Range(t.queue)
    /\ HashMap_len(t.ids) = Len(t.queue)
    /\ (t.capacity # None /\ t.capacity[1] >= 1) => Len(t.queue) <= t.capacity[1]

\* the tasks that hold a guard and are about to look at the tracker
Observers == Readers \cup {t \in Tasks : tasks[t].pc \in {"seen", "clear"}}

C23_NotSupported ==
    (last.op = "facade" /\ Body(last.backend, last.operation) # "store")
        => last.outcome = "Err(NotSupported)"

\* the id at the back of a full tracker, the one the next new id evicts
EvictedNext(t) ==
    IF t.capacity # None /\ Len(t.queue) >= t.capacity[1] /\ t.queue # <<>>
    THEN {VecDeque_back(t.queue)} ELSE {}

\* C24: with events disabled every save_event, the first of an event and a
\* repeated one, returns Rejected(Other); after it the id is tracked and
\* check_id answers Saved; a new id has an empty relay set and a tracked id
\* keeps its relay set; and a tracked id stays tracked until a wipe, or
\* until a new id arrives at a full tracker whose oldest id it is.
C24_SeenOnly ==
    [][~db.opts.events =>
        /\ last'.op = "save_event" =>
              LET id == last'.event.id IN
              /\ last'.status = "Rejected(Other)"
              /\ SeenTracker_contains(db'.seen_event_ids, id)
              /\ Memory_check_id(db', id) = "Saved"
              /\ db'.helper = db.helper
              /\ IF SeenTracker_contains(db.seen_event_ids, id)
                 THEN db'.seen_event_ids = db.seen_event_ids
                 ELSE Memory_event_seen_on_relays(db', id) = Some({})
        /\ \A id \in StoreIds :
              (SeenTracker_contains(db.seen_event_ids, id)
                  /\ ~SeenTracker_contains(db'.seen_event_ids, id))
              => \/ last'.op = "wipe"
                 \/ /\ last'.op \in {"save_event", "event_id_seen"}
                    /\ id \in EvictedNext(db.seen_event_ids)]_vars

\* C24 witness: save_event of an event whose id was tracked with a relay has
\* returned Rejected(Other) and the relay set is as before
C24_Witness ==
    /\ last.op = "save_event"
    /\ ~db.opts.events
    /\ last.status = "Rejected(Other)"
    /\ Memory_event_seen_on_relays(last.pre, last.event.id) = Some({BackendRelayUrl})
    /\ Memory_event_seen_on_relays(db, last.event.id) = Some({BackendRelayUrl})
    /\ Len(db.seen_event_ids.queue) = 2

\* C25: with events enabled, in the state a save_event(e) that returned
\* Success leaves, event_by_id(e.id) is Some(e) and
\* query([Filter::id(e.id)]) has length 1 and contains e; and whenever the
\* store holds a single event e, of kind 1 and author P,
\* count([Filter::author(P)]) is 1 and query([Filter::kind(1).limit(1)]) has
\* length 1 and contains e.
C25_FacadeConsistent ==
    db.opts.events =>
        /\ (last.op = "save_event" /\ last.status = "Success") =>
              LET e == last.event
                  q == Memory_query(db, <<Filter_id(e.id)>>)
              IN /\ Memory_event_by_id(db, e.id) = Some(e)
                 /\ Events_len(q) = 1
                 /\ Events_contains(q, e)
        /\ \A e \in StoreEvents :
              (Helper_events(db.helper) = {e} /\ e.kind = KIND_TEXT_NOTE /\ e.pubkey = PK_P)
              => LET q == Memory_query(db, <<Filter_limit(Filter_kind(KIND_TEXT_NOTE), 1)>>)
                 IN /\ Memory_count(db, <<Filter_author(PK_P)>>) = 1
                    /\ Events_len(q) = 1
                    /\ Events_contains(q, e)

\* C25 witness: save_event of the note of author P has returned Success on
\* a bounded store that accepted events had been removed from, and the note
\* is now the only event stored
C25_Witness ==
    /\ db.opts.events
    /\ db.opts.max_events # None
    /\ last.op = "save_event"
    /\ last.status = "Success"
    /\ last.event = StoreTable[1]
    /\ Helper_events(db.helper) = {StoreTable[1]}
    /\ Helper_events(last.pre.helper) = {}
    /\ tasks[Caller].accepted # {}
    /\ ~tasks[Caller].only_saves

\* the stored events of a coordinate
StoredOf(h, coordinate) ==
    {e \in Helper_events(h) : Event_coordinate(e) = Some(coordinate)}

\* C26 as claimed: after save_event calls only, the store holds at most one
\* event of the coordinate and none older than an event of the coordinate
\* that a save has answered Success for.
C26_NewestPerCoordinate_Claimed ==
    (db.opts.events /\ tasks[Caller].only_saves) =>
        /\ Cardinality(StoredOf(db.helper, CoordX)) <= 1
        /\ \A e \in StoredOf(db.helper, CoordX) :
              \A a \in tasks[Caller].accepted :
                  Event_coordinate(a) = Some(CoordX) => a.created_at <= e.created_at

\* C26: with events enabled the store holds at most one event of a
\* coordinate; a save_event of an event of the coordinate, while an event of
\* it is stored, is answered Success only if the event is not older than the
\* stored one, and then it is the one stored; a save of an older one is
\* rejected and leaves the store as it was.
C26_NewestPerCoordinate ==
    db.opts.events =>
        /\ Cardinality(StoredOf(db.helper, CoordX)) <= 1
        /\ (last.op = "save_event" /\ Event_coordinate(last.event) = Some(CoordX)) =>
              LET before == StoredOf(last.pre.helper, CoordX) IN
              /\ last.status = "Success" =>
                    /\ \A e \in before : e.created_at <= last.event.created_at
                    /\ StoredOf(db.helper, CoordX) = {last.event}
              /\ (\E e \in before : e.created_at > last.event.created_at) =>
                    /\ last.status = "Rejected"
                    /\ db = last.pre

\* C26 witness: the store held the event of the coordinate of time 200 and
\* save_event of the one of time 100 was rejected
C26_Witness ==
    /\ db.opts.events
    /\ last.op = "save_event"
    /\ last.event = StoreTable[3]
    /\ last.status = "Rejected"
    /\ StoredOf(last.pre.helper, CoordX) = {StoreTable[4]}
    /\ StoredOf(db.helper, CoordX) = {StoreTable[4]}
    /\ StoreTable[4] \in tasks[Caller].accepted

\* a deletion of the coordinate at a time >= timestamp is among those the
\* caller got Success for since the last wipe
DeletionRecorded(coordinate, timestamp) ==
    \E r \in tasks[Caller].recorded :
        r.coordinate = coordinate /\ r.timestamp >= timestamp

\* C27: with events enabled, no stored event of a coordinate has a
\* created_at at or before a recorded deletion of the coordinate; a
\* save_event of such an event is rejected and leaves the store as it was;
\* and has_coordinate_been_deleted(c, ts) answers true exactly when a
\* deletion of c at a time >= ts is recorded.
C27_CoordinateDeletion ==
    db.opts.events =>
        /\ \A e \in StoredOf(db.helper, CoordX) :
              /\ ~Helper_has_coordinate_been_deleted(db.helper, CoordX, e.created_at)
              /\ ~DeletionRecorded(CoordX, e.created_at)
        /\ (/\ last.op = "save_event"
            /\ Event_coordinate(last.event) = Some(CoordX)
            /\ Memory_has_coordinate_been_deleted(last.pre, CoordX, last.event.created_at))
           => /\ last.status = "Rejected"
              /\ db = last.pre
        /\ last.op = "has_coordinate_been_deleted" =>
              (last.deleted <=> DeletionRecorded(last.coordinate, last.timestamp))
        /\ \A ts \in Timestamps :
              Memory_has_coordinate_been_deleted(db, CoordX, ts)
                  <=> DeletionRecorded(CoordX, ts)

\* C27 witness: the deletion of the coordinate at 150 and then the one at
\* 120 were saved, nothing of the coordinate is stored, and save_event of
\* its event of time 100 was rejected
C27_Witness ==
    /\ db.opts.events
    /\ last.op = "save_event"
    /\ last.event = StoreTable[3]
    /\ last.status = "Rejected"
    /\ StoredOf(last.pre.helper, CoordX) = {}
    /\ Cardinality(tasks[Caller].recorded) = 2
    /\ db.helper.deleted_coordinates[CoordX] = StoreTable[6].created_at
    /\ StoreTable[3].id \notin db.helper.deleted_ids

\* a save of a deletion of the coordinate at a time >= timestamp has been
\* answered Success at some time, before or after a wipe
DeletionEverRecorded(coordinate, timestamp) ==
    \E a \in tasks[Caller].accepted :
        /\ a.kind = KIND_EVENT_DELETION
        /\ coordinate \in a.a_tags
        /\ coordinate.public_key = a.pubkey
        /\ a.created_at >= timestamp

\* C27 as claimed: once a deletion of the coordinate at time t has been
\* recorded, no later operation, wipe included, leaves an event of the
\* coordinate with created_at <= t stored.
C27_CoordinateDeletion_Claimed ==
    db.opts.events =>
        \A e \in StoredOf(db.helper, CoordX) : ~DeletionEverRecorded(CoordX, e.created_at)


\* the stored events that match at least one filter of the list
MatchingAny(h, filters) ==
    {e \in Helper_events(h) : \E i \in 1..Len(filters) : Filter_match_event(filters[i], e)}

\* C28: query(filters) on the in-memory backend returns, newest first and
\* without repetition, the stored events that match at least one filter;
\* for a single filter with limit N it returns the N newest stored events
\* that match it, all of them when fewer than N match.
C28_QueryNewest ==
    last.op = "query" =>
        LET result == Events_to_vec(last.events)
            matching == MatchingAny(db.helper, last.filters)
        IN /\ SortedDescending(result)
           /\ IF Len(last.filters) = 1 /\ last.filters[1].limit # None
              THEN /\ Range(result) = NewestN(matching, last.filters[1].limit[1])
                   /\ Len(result) <= last.filters[1].limit[1]
                   /\ (Cardinality(matching) <= last.filters[1].limit[1]) => Range(result) = matching
              ELSE Range(result) = matching

C28_Witness ==
    /\ last.op = "query"
    /\ last.filters = <<Filter_limit(Filter_author(PK_P), 2)>>
    /\ Cardinality(MatchingAny(db.helper, last.filters)) >= 3
    /\ Len(Events_to_vec(last.events)) = 2
    /\ Events_to_vec(last.events)[1].created_at > Events_to_vec(last.events)[2].created_at


NdbQueries == {"count", "txn_query", "negentropy_items"}

\* the fields of a nostrdb filter of one name
FieldsOf(nf, field) == {c \in nf : c.field = field}

\* the field of that name is emitted exactly when emit holds, once, with
\* these values
EmitsExactly(nf, field, emit, values) ==
    /\ (FieldsOf(nf, field) # {}) <=> emit
    /\ \A c \in FieldsOf(nf, field) : c = NdbField(field, None, values)

\* the stored notes the filter itself selects, its limit apart
Filter_matching(store, f) ==
    NdbResult({e \in store.notes : Filter_match_event(f, e)},
              IF Filter_match_event(f, BulkNote) THEN store.bulk ELSE 0)

\* C29: the translation of a filter holds an ids, authors or kinds field
\* exactly when the attribute is present and not empty, one tag field for
\* every key of a non-empty tag map, since, until and limit exactly when
\* set, each with the values of the filter (a kind as the 64-bit number of
\* the same value); and the translated filter selects, of the events and of
\* every store, the events the filter matches.
C29_Translation ==
    last.op \in NdbQueries =>
        \A i \in 1..Len(last.filters) :
            LET f == last.filters[i]
                nf == last.translated[i]
            IN /\ EmitsExactly(nf, "ids", f.ids # None /\ f.ids # Some({}),
                               IF f.ids # None THEN f.ids[1] ELSE {})
               /\ EmitsExactly(nf, "authors", f.authors # None /\ f.authors # Some({}),
                               IF f.authors # None THEN f.authors[1] ELSE {})
               /\ EmitsExactly(nf, "kinds", f.kinds # None /\ f.kinds # Some({}),
                               IF f.kinds # None THEN {<<k, 0, 0, 0>> : k \in f.kinds[1]} ELSE {})
               /\ {<<c.key, c.values>> : c \in FieldsOf(nf, "tags")}
                     = {<<Some(l), f.generic_tags[l]>> : l \in DOMAIN f.generic_tags}
               /\ Cardinality(FieldsOf(nf, "tags")) = Cardinality(DOMAIN f.generic_tags)
               /\ EmitsExactly(nf, "since", f.since # None, {f.since[1]})
               /\ EmitsExactly(nf, "until", f.until # None, {f.until[1]})
               /\ EmitsExactly(nf, "limit", f.limit # None, {f.limit[1]})
               /\ \A c \in nf : c.field \in {"ids", "authors", "kinds", "tags", "since", "until", "limit"}
               /\ \A e \in StoreEvents \cup {BulkNote} :
                     NdbFilter_match(nf, e) <=> Filter_match_event(f, e)
               /\ Ndb_matching(last.store, nf) = Filter_matching(last.store, f)

C29_Witness ==
    /\ last.op = "count"
    /\ Len(last.filters) = 1
    /\ last.filters[1].ids = Some({})
    /\ last.filters[1].kinds = Some({})
    /\ last.translated = <<{}>>
    /\ last.store.notes = NdbEvents
    /\ last.res[1].notes = NdbEvents

\* a filter of kind 30000, an author and a time window is translated and run
C29_WitnessKinds ==
    /\ last.op = "txn_query"
    /\ NdbField("kinds", None, {<<KIND_ADDRESSABLE, 0, 0, 0>>}) \in last.translated[1]
    /\ Cardinality(last.translated[1]) = 4
    /\ last.res[1].notes = {StoreTable[3]}

\* C30 as claimed: for every filter of the list, count, the query of a
\* transaction and negentropy_items return every stored event that the
\* filter matches within its limit, whatever the size of the store.
C30_Superset ==
    last.op \in NdbQueries =>
        \A i \in 1..Len(last.filters) :
            LET f == last.filters[i]
                m == Filter_matching(last.store, f)
                want == IF f.limit # None /\ f.limit[1] < NdbResult_len(m)
                        THEN f.limit[1] ELSE NdbResult_len(m)
                newest == NewestN(m.notes, want)
            IN /\ newest \subseteq last.res[i].notes
               /\ want - Cardinality(newest) <= last.res[i].bulk
               /\ want <= last.count


\* the matched records of a transaction query whose conversion fails
FailedConversions(res) ==
    UNION {{n \in res[i].notes : ~ndb_note_to_event(n).ok} : i \in 1..Len(res)}

\* C31 as claimed: a transaction query on the nostrdb backend returns an
\* error when the conversion of a matched record to a QueryEvent fails; it
\* never returns Ok with the remaining records.
C31_ErrorsSurface ==
    (last.op = "txn_query" /\ FailedConversions(last.res) # {}) => last.result = "Err"


\* C40 as claimed: on the nostrdb backend event_by_id of an id that is not
\* stored, for which check_id answers NotExistent in the same state, returns
\* Ok(None), not an error.
C40_AbsentIsNone ==
    (/\ last.op = "event_by_id"
     /\ ~\E n \in last.store.notes : n.id = last.id)
    => /\ last.result = "Ok"
       /\ last.event = None


C33_IntoOwnedIdempotent ==
    last.op = "into_owned" =>
        /\ last.owned.variant = "Owned"
        /\ last.twice = last.owned
        /\ \A field \in DOMAIN last.owned.event :
              last.twice.event[field] = last.owned.event[field]
        /\ (last.x.variant = "Owned" => last.owned = last.x)
        /\ last.owned_event = last.event

\* a borrowed view with a borrowed tag has been made owned
C33_Witness ==
    /\ last.op = "into_owned"
    /\ last.x = Borrowed(ViewTable[1])
    /\ last.owned # last.x
    /\ last.owned.event.tags = <<[buf |-> <<"e", "x">>]>>
    /\ last.event.content = "hello"

\* C34: for a borrowed view b, id, pubkey, created_at and content are the
\* same on Borrowed(b) and on its owned copy, the two are == and compare
\* Equal, and each compares with every other event as the other does.
C34_VariantsObservationallyEqual ==
    (last.op = "into_owned" /\ last.x.variant = "Borrowed") =>
        /\ last.owned_accessors = last.accessors
        /\ last.eq
        /\ last.ordering = "Equal"
        /\ \A q \in ViewUniverse \cup QueryEventUniverse :
              /\ QueryEvent_cmp(last.x, q) = QueryEvent_cmp(last.owned, q)
              /\ QueryEvent_cmp(q, last.x) = QueryEvent_cmp(q, last.owned)
              /\ QueryEvent_eq(last.x, q) = QueryEvent_eq(last.owned, q)

\* the owned copy of a view with two tags differs from the view and answers
\* the accessors alike
C34_Witness ==
    /\ last.op = "into_owned"
    /\ last.x = Borrowed(ViewTable[3])
    /\ last.owned.event # last.x.event
    /\ last.owned_accessors = <<<<0, 9>>, <<8, 8>>, 200, "bye">>
    /\ last.ordering = "Equal"


\* C35: a.merge(b) and b.merge(a) hold the same events and have the same
\* capacity, hash and taint flag, for the two collections a merge was made
\* of.
C35_MergeCommutative ==
    last.op = "merge" =>
        LET ab == Coll(last.slot)
            ba == Events_merge(last.other, last.self)
        IN /\ ab = Events_merge(last.self, last.other)
           /\ Events_iter(ab) = Events_iter(ba)
           /\ ab.set.capacity = ba.set.capacity
           /\ ab.hash = ba.hash
           /\ ab.prev_not_match = ba.prev_not_match

\* two full bounded collections of one filter with different events have
\* been merged and the result is still bounded and untainted
C35_Witness ==
    /\ last.op = "merge"
    /\ last.self.hash = last.other.hash
    /\ ~last.self.prev_not_match
    /\ ~last.other.prev_not_match
    /\ last.self.set.capacity # Unbounded
    /\ Events_len(last.self) = MaxLimit
    /\ Events_len(last.other) >= 1
    /\ Events_iter(last.self) # Events_iter(last.other)
    /\ ~Events_contains(Coll(last.slot), Events_last(last.self)[1])

\* a tainted collection has been merged into an untainted bounded one
C35_WitnessTainted ==
    /\ last.op = "merge"
    /\ ~last.self.prev_not_match
    /\ last.other.prev_not_match
    /\ last.self.set.capacity # Unbounded
    /\ Events_len(last.self) >= 1
    /\ Events_len(last.other) >= 1

\* the collections a third operand of merge is drawn from
ThirdCollections ==
    {Events_extend(Events_new(filters), events) :
        filters \in MergeFilterLists, events \in EventSeqs(MergeUniverse, 1)}

\* C36 as claimed: the events of (a.merge(b)).merge(c) and of
\* a.merge(b.merge(c)) are the same, for every third collection c.
C36_MergeAssociative ==
    last.op = "merge" =>
        \A c \in ThirdCollections :
            Events_iter(Events_merge(Coll(last.slot), c))
                = Events_iter(Events_merge(last.self, Events_merge(last.other, c)))


\* the events of a collection
EventsOf(E) == Range(Events_iter(E))

\* C36: both groupings of a merge of three collections hold only events of
\* the three; when all three are unbounded they hold all of them; when all
\* three are untainted collections of one filter list with a limit they
\* hold the newest of them up to the limit.  (When a bounded collection
\* meets one of its own filter list in one grouping and a tainted or
\* foreign one in the other, the groupings may differ.)
C36_MergeGrouping ==
    last.op = "merge" =>
        \A c \in ThirdCollections :
            LET a == last.self
                b == last.other
                left == Events_merge(Coll(last.slot), c)
                right == Events_merge(a, Events_merge(b, c))
                all == EventsOf(a) \cup EventsOf(b) \cup EventsOf(c)
            IN /\ EventsOf(left) \subseteq all
               /\ EventsOf(right) \subseteq all
               /\ (\A x \in {a, b, c} : x.set.capacity = Unbounded)
                     => EventsOf(left) = all /\ EventsOf(right) = all
               /\ (/\ a.hash = b.hash /\ b.hash = c.hash
                   /\ \A x \in {a, b, c} : ~x.prev_not_match /\ x.set.capacity # Unbounded)
                     => /\ EventsOf(left) = NewestN(all, a.set.capacity.max)
                        /\ Events_iter(right) = Events_iter(left)

\* two bounded collections of one filter list that hold three events
\* between them have been merged, and a third of that filter list exists
C36_Witness ==
    /\ last.op = "merge"
    /\ last.self.hash = last.other.hash
    /\ ~last.self.prev_not_match
    /\ ~last.other.prev_not_match
    /\ last.self.set.capacity # Unbounded
    /\ Cardinality(EventsOf(last.self) \cup EventsOf(last.other)) = NumMergeEvents
    /\ Events_len(Coll(last.slot)) = MaxLimit
    /\ \E c \in ThirdCollections : c.hash = last.self.hash /\ Events_len(c) = 1


\* C37: for a QueryEvents of either variant, first() and first_owned() return
\* the same event, which is the one Events::first() returns after
\* into_owned() (the newest, ties broken by the smallest id), and into_iter()
\* yields the events in descending order
C37_FirstIsNewest ==
    last.op = "collect" =>
        /\ last.first = last.first_owned
        /\ IntoEvents(last.first) = Events_first(QueryEvents_into_owned(last.stream))
        /\ SortedDescending(IntoEvents(last.iter))

\* what holds of both variants: first() and first_owned() are the head of
\* into_iter(); of the Set variant, that head is the newest event
C37_FirstIsHead ==
    last.op = "collect" =>
        /\ last.first = last.first_owned
        /\ last.first = OptionHead(last.iter)
        /\ last.stream.variant = "Set" =>
               /\ IntoEvents(last.first) = Events_first(QueryEvents_into_owned(last.stream))
               /\ SortedDescending(IntoEvents(last.iter))

C37_SetCollected ==
    /\ last.op = "collect"
    /\ last.stream.variant = "Set"
    /\ Len(last.iter) = 2


\* C38: with events stored, check_id returns NotExistent only if in some
\* state between its call and its return the id was neither stored nor
\* marked deleted
C38_CheckIdAtomic ==
    (/\ last.op = "check_id"
     /\ db.opts.events
     /\ last.status = "NotExistent") => last.absent


\* C39: with events disabled, whatever has been saved or seen, event_by_id
\* returns None for every id, query returns an empty collection and count 0
\* for every filter list, and check_id answers Saved for exactly the ids the
\* seen tracker holds
C39_DisabledStoresNothing ==
    ~db.opts.events =>
        /\ \A id \in ReadIds \cup SeenUniverse :
              /\ Memory_event_by_id(db, id) = None
              /\ Memory_check_id(db, id) = "Saved" <=> id \in DOMAIN db.seen_event_ids.ids
        /\ \A filters \in StoreFilterLists \cup CountFilterLists :
              /\ Events_len(Memory_query(db, filters)) = 0
              /\ Memory_count(db, filters) = 0
        /\ last.op = "event_by_id" => last.event = None
        /\ last.op = "query" => Events_len(last.events) = 0
        /\ last.op = "count" => last.count = 0
        /\ last.op = "check_id" =>
              (last.status = "Saved" <=> last.id \in DOMAIN db.seen_event_ids.ids)

\* event_by_id has answered None for an id that check_id reports Saved
C39_Witness ==
    /\ ~db.opts.events
    /\ last.op = "event_by_id"
    /\ last.event = None
    /\ Memory_check_id(db, last.id) = "Saved"
    /\ \E id \in ReadIds \cup SeenUniverse : Memory_check_id(db, id) = "NotExistent"

====
